---- MODULE Spec2Model ----
(***************************************************************************)
(* Heat-map tracker, route processor and overlap scorer of ripe-ride.     *)
(*                                                                         *)
(* Numbers.  Latitudes and longitudes are integers counted in steps of     *)
(* 1/(111*Scale) degree, so that one kilometre of latitude is Scale steps  *)
(* and the midpoint of two route points (which lie on even steps) is again *)
(* an integer.  Distances are non-negative integers (units of 100 m).      *)
(* Quotients (the scorer's cell percentage, the score) are exact rationals *)
(* [n, d] in lowest terms; the rounding of IEEE-754 doubles is not         *)
(* modelled.                                                               *)
(***************************************************************************)
EXTENDS Integers, Sequences, FiniteSets, TLC

(***************************************************************************)
(* Bounds of the model.                                                    *)
(***************************************************************************)
MaxPoints == 3      \* longest route, in points
MaxRoutes == 2      \* most routes in one batch (one folder)
MaxAdds   == 3      \* most direct addDistance calls between two resets
MaxLocates == 2     \* most latLngToHeatmap calls followed on one tracker
MaxRows   == 2      \* most rows of the saved-routes table
MaxItems  == 2      \* most activities Strava returns to one sync
MaxList   == 3      \* most routes in one response the hook receives

(***************************************************************************)
(* Program constants.                                                      *)
(***************************************************************************)
DEFAULT_HEATMAP_SIZE_KM == 5
Scale  == 2         \* coordinate steps per kilometre of latitude (111 km per degree)
CosNum == 3         \* Math.cos(refLat * Math.PI / 180) as the rational CosNum / CosDen
CosDen == 5

\* undefined, for a field that holds a string
NULL == "undefined"

\* An optional number is <<>> (undefined) or <<v>>.
Undefined == <<>>
Some(v) == <<v>>
\* x ?? alt
Nullish(x, alt) == IF x = Undefined THEN alt ELSE x[1]

(***************************************************************************)
(* Exact rationals.                                                        *)
(***************************************************************************)
Abs(x) == IF x < 0 THEN -x ELSE x

RECURSIVE GCD(_, _)
GCD(a, b) == IF b = 0 THEN a ELSE GCD(b, a % b)

\* n / d for d > 0, in lowest terms
Ratio(n, d) ==
    LET g == GCD(Abs(n), d)
    IN  [n |-> n \div g, d |-> d \div g]

RAdd(a, b) == Ratio(a.n * b.d + b.n * a.d, a.d * b.d)
RMul(a, b) == Ratio(a.n * b.n, a.d * b.d)
RLeq(a, b) == a.n * b.d <= b.n * a.d
RInt(k)    == [n |-> k, d |-> 1]

RECURSIVE ISqrtFrom(_, _)
ISqrtFrom(n, r) == IF (r + 1) * (r + 1) > n THEN r ELSE ISqrtFrom(n, r + 1)
ISqrt(n) == ISqrtFrom(n, 0)

(***************************************************************************)
(* Strings of the cell keys: sequences of characters.                      *)
(***************************************************************************)
DigitChar == <<"0", "1", "2", "3", "4", "5", "6", "7", "8", "9">>

RECURSIVE DecString(_)
DecString(n) ==
    IF n < 10 THEN <<DigitChar[n + 1]>>
    ELSE DecString(n \div 10) \o <<DigitChar[(n % 10) + 1]>>

\* `${n}` for an integer n
NumberToString(n) == IF n < 0 THEN <<"-">> \o DecString(-n) ELSE DecString(n)

DigitValue(c) == (CHOOSE i \in 1..10 : DigitChar[i] = c) - 1

RECURSIVE ParseDec(_, _)
ParseDec(s, acc) ==
    IF s = <<>> THEN acc ELSE ParseDec(Tail(s), acc * 10 + DigitValue(Head(s)))

\* Number(s) for the decimal strings NumberToString produces
StringToNumber(s) ==
    IF Head(s) = "-" THEN -ParseDec(Tail(s), 0) ELSE ParseDec(s, 0)

\* key.split(',') for a key with one comma
SplitComma(s) ==
    LET i == CHOOSE j \in 1..Len(s) : s[j] = ","
    IN  <<SubSeq(s, 1, i - 1), SubSeq(s, i + 1, Len(s))>>

(***************************************************************************)
(* heatmapConfig.ts                                                        *)
(***************************************************************************)
DEFAULT_REFERENCE_POINT == <<2, 2>>

createHeatmapConfig(heatmapSizeKm, referencePoint) ==
    [heatmapSizeKm |-> heatmapSizeKm, referencePoint |-> referencePoint]

(***************************************************************************)
(* heatmapTracker.ts                                                       *)
(***************************************************************************)
\* variant: the quotient is truncated toward zero
Floor_TowardZero(a, b) ==
    IF a >= 0 THEN a \div b ELSE -((-a) \div b)

\* Math.floor(a / b) for b # 0
Floor(a, b) == IF b > 0 THEN a \div b ELSE (-a) \div (-b)

\* variant: the longitude scale is taken at the latitude of the point
latLngToHeatmap_PointLatitude(lat, lng, heatmapConfig) ==
    LET refLat == heatmapConfig.referencePoint[1]
        refLng == heatmapConfig.referencePoint[2]
        latDen == heatmapConfig.heatmapSizeKm * Scale
        lngDen == heatmapConfig.heatmapSizeKm * Scale * CosDen
    IN  [cellX |-> Floor((lng - refLng) * (CosNum + lat - refLat), lngDen),
         cellY |-> Floor(lat - refLat, latDen)]

latLngToHeatmap(lat, lng, heatmapConfig) ==
    LET refLat == heatmapConfig.referencePoint[1]
        refLng == heatmapConfig.referencePoint[2]
        \* kmToLatDegrees = size * Scale steps;
        \* kmToLngDegrees = size * Scale * CosDen / CosNum steps
        latDen == heatmapConfig.heatmapSizeKm * Scale
        lngDen == heatmapConfig.heatmapSizeKm * Scale * CosDen
    IN  [cellX |-> Floor((lng - refLng) * CosNum, lngDen),
         cellY |-> Floor(lat - refLat, latDen)]

getCellKey(cellX, cellY) ==
    NumberToString(cellX) \o <<",">> \o NumberToString(cellY)

\* A Map<string, number> is the sequence of its entries in insertion order.
MapHas(map, key) == \E i \in 1..Len(map) : map[i].key = key

MapGet(map, key) ==
    IF MapHas(map, key)
    THEN Some(map[CHOOSE i \in 1..Len(map) : map[i].key = key].value)
    ELSE Undefined

MapSet(map, key, value) ==
    IF MapHas(map, key)
    THEN [i \in 1..Len(map) |->
            IF map[i].key = key THEN [key |-> key, value |-> value] ELSE map[i]]
    ELSE Append(map, [key |-> key, value |-> value])

\* x || 0 for a number or undefined
OrZero(x) == IF x = Undefined THEN 0 ELSE x[1]

\* new ArrayHeatmapTracker(heatmapConfig): the object's two fields
NewTracker(heatmapConfig) == [heatmap |-> <<>>, heatmapConfig |-> heatmapConfig]

\* variant: the cell is set to the distance, the running total is not read
addDistance_Overwrite(t, lat, lng, distance) ==
    LET cell == latLngToHeatmap(lat, lng, t.heatmapConfig)
        key  == getCellKey(cell.cellX, cell.cellY)
    IN  [t EXCEPT !.heatmap = MapSet(t.heatmap, key, distance)]

addDistance(t, lat, lng, distance) ==
    LET cell == latLngToHeatmap(lat, lng, t.heatmapConfig)
        key  == getCellKey(cell.cellX, cell.cellY)
    IN  [t EXCEPT !.heatmap = MapSet(t.heatmap, key, OrZero(MapGet(t.heatmap, key)) + distance)]

\* variant: the key is built with the coordinates in the wrong order
getDistance_SwappedKey(t, cellX, cellY) ==
    OrZero(MapGet(t.heatmap, getCellKey(cellY, cellX)))

getDistance(t, cellX, cellY) ==
    OrZero(MapGet(t.heatmap, getCellKey(cellX, cellY)))

\* the cell a Map entry is reported as: key.split(',').map(Number)
EntryCell(entry) ==
    LET parts == SplitComma(entry.key)
    IN  [cellX |-> StringToNumber(parts[1]),
         cellY |-> StringToNumber(parts[2]),
         distance |-> entry.value]

\* the cells forEachNonEmpty hands to its callback, in order
forEachNonEmpty(t) ==
    LET cells == [i \in 1..Len(t.heatmap) |-> EntryCell(t.heatmap[i])]
    IN  SelectSeq(cells, LAMBDA cell : cell.distance > 0)

findCell(t, cellX, cellY) ==
    LET distance == getDistance(t, cellX, cellY)
    IN  IF distance > 0
        THEN <<[cellX |-> cellX, cellY |-> cellY, distance |-> distance]>>
        ELSE Undefined

RECURSIVE SumDistance(_)
SumDistance(cells) ==
    IF cells = <<>> THEN 0 ELSE Head(cells).distance + SumDistance(Tail(cells))

getTotalDistance(t) == SumDistance(forEachNonEmpty(t))

RECURSIVE MaxOver(_, _)
MaxOver(cells, max) ==
    IF cells = <<>> THEN max
    ELSE MaxOver(Tail(cells),
                 IF Head(cells).distance > max THEN Head(cells).distance ELSE max)

getMaxDistance(t) == MaxOver(forEachNonEmpty(t), 0)

getCellCount(t) == Len(forEachNonEmpty(t))

\* variant: the total is divided by the number of entries, empty ones included
getAverageDistance_AllEntries(t) ==
    IF Len(t.heatmap) > 0 THEN Ratio(getTotalDistance(t), Len(t.heatmap)) ELSE RInt(0)

getAverageDistance(t) ==
    LET totalDistance == getTotalDistance(t)
        cellCount     == getCellCount(t)
    IN  IF cellCount > 0 THEN Ratio(totalDistance, cellCount) ELSE RInt(0)

getAllCells(t) == [i \in 1..Len(t.heatmap) |-> EntryCell(t.heatmap[i])]

\* variant: the cells are zeroed and their keys kept
reset_KeepKeys(t) ==
    [t EXCEPT !.heatmap = [i \in 1..Len(t.heatmap) |-> [key |-> t.heatmap[i].key, value |-> 0]]]

reset(t) == [t EXCEPT !.heatmap = <<>>]

getHeatmap(t) == t.heatmap

(***************************************************************************)
(* distance.ts, routeLoader.ts                                             *)
(***************************************************************************)
\* Great-circle distance in units of 100 m.  One step of latitude is CosDen
\* units and one step of longitude CosNum units (the longitude compression at
\* the latitude of the routes); the sphere is locally flat at this scale.
calculateDistance(lat1, lon1, lat2, lon2) ==
    ISqrt((CosDen * (lat2 - lat1)) * (CosDen * (lat2 - lat1))
          + (CosNum * (lon2 - lon1)) * (CosNum * (lon2 - lon1)))

\* a track point as parseGPXWithXML pushes it: no derived field yet
RoutePoint(lat, lon) ==
    [lat |-> lat, lon |-> lon,
     distanceFromPrev |-> Undefined, midLat |-> Undefined, midLon |-> Undefined]

\* variant: the midpoint fields hold the segment's end point
PopulatedPoints_EndAsMid(points) ==
    [i \in 1..Len(points) |->
        IF i = 1
        THEN [points[i] EXCEPT !.distanceFromPrev = Some(0),
                               !.midLat = Undefined, !.midLon = Undefined]
        ELSE LET prev == points[i - 1]
                 curr == points[i]
             IN  [curr EXCEPT
                    !.distanceFromPrev =
                        Some(calculateDistance(prev.lat, prev.lon, curr.lat, curr.lon)),
                    !.midLat = Some(curr.lat),
                    !.midLon = Some(curr.lon)]]

\* the points after calculateRouteDistance has written their derived fields
PopulatedPoints(points) ==
    [i \in 1..Len(points) |->
        IF i = 1
        THEN [points[i] EXCEPT !.distanceFromPrev = Some(0),
                               !.midLat = Undefined, !.midLon = Undefined]
        ELSE LET prev == points[i - 1]
                 curr == points[i]
             IN  [curr EXCEPT
                    !.distanceFromPrev =
                        Some(calculateDistance(prev.lat, prev.lon, curr.lat, curr.lon)),
                    !.midLat = Some((prev.lat + curr.lat) \div 2),
                    !.midLon = Some((prev.lon + curr.lon) \div 2)]]

RECURSIVE SumFromPrev(_)
SumFromPrev(points) ==
    IF points = <<>> THEN 0
    ELSE Head(points).distanceFromPrev[1] + SumFromPrev(Tail(points))

\* the total calculateRouteDistance returns
calculateRouteDistance(points) == SumFromPrev(PopulatedPoints(points))

\* the Route loadFromFolder builds for one GPX file, from the points parsed
LoadedRoute(points) ==
    IF Len(points) = 0
    THEN [points |-> <<>>, totalDistance |-> 0,
          error |-> "No track points found in GPX file"]
    ELSE [points |-> PopulatedPoints(points),
          totalDistance |-> calculateRouteDistance(points),
          error |-> NULL]

(***************************************************************************)
(* routeProcessor.ts.  A run is the tracker together with the addDistance  *)
(* calls made on it so far, <<lat, lng, distance>> each.                   *)
(***************************************************************************)
CallAddDistance(run, lat, lng, distance) ==
    [tracker |-> addDistance(run.tracker, lat, lng, distance),
     calls   |-> Append(run.calls, <<lat, lng, distance>>)]

\* variant: the distance goes to the segment's end point, not to its midpoint
RECURSIVE ProcessRouteLoop_AtEndPoint(_, _, _)
ProcessRouteLoop_AtEndPoint(points, i, run) ==
    IF i > Len(points) THEN run
    ELSE LET prev     == points[i - 1]
             curr     == points[i]
             distance == Nullish(curr.distanceFromPrev,
                            calculateDistance(prev.lat, prev.lon, curr.lat, curr.lon))
         IN  ProcessRouteLoop_AtEndPoint(points, i + 1,
                CallAddDistance(run, curr.lat, curr.lon, distance))

\* the loop of processRoute from index i (1-based) on
RECURSIVE ProcessRouteLoop(_, _, _)
ProcessRouteLoop(points, i, run) ==
    IF i > Len(points) THEN run
    ELSE LET prev     == points[i - 1]
             curr     == points[i]
             distance == Nullish(curr.distanceFromPrev,
                            calculateDistance(prev.lat, prev.lon, curr.lat, curr.lon))
             midLat   == Nullish(curr.midLat, (prev.lat + curr.lat) \div 2)
             midLng   == Nullish(curr.midLon, (prev.lon + curr.lon) \div 2)
         IN  ProcessRouteLoop(points, i + 1, CallAddDistance(run, midLat, midLng, distance))

\* variant: the loop starts at the first point, taken as its own predecessor
ProcessRouteRun_FromFirstPoint(route, run) ==
    IF Len(route.points) < 1 THEN run
    ELSE ProcessRouteLoop(<<route.points[1]>> \o route.points, 2, run)

ProcessRouteRun(route, run) ==
    IF Len(route.points) < 2 THEN run ELSE ProcessRouteLoop(route.points, 2, run)

processRoute(route, t) ==
    ProcessRouteRun(route, [tracker |-> t, calls |-> <<>>]).tracker

RECURSIVE ProcessRoutesLoop(_, _)
ProcessRoutesLoop(routes, run) ==
    IF routes = <<>> THEN run
    ELSE ProcessRoutesLoop(Tail(routes), ProcessRouteRun(Head(routes), run))

\* variant: the tracker is not reset first
ProcessRoutesRun_NoReset(routes, t) ==
    ProcessRoutesLoop(routes, [tracker |-> t, calls |-> <<>>])

ProcessRoutesRun(routes, t) ==
    ProcessRoutesLoop(routes, [tracker |-> reset(t), calls |-> <<>>])

processRoutes(routes, t) == ProcessRoutesRun(routes, t).tracker

(***************************************************************************)
(* app/api/routes/route.ts                                                 *)
(***************************************************************************)
\* variant: the route's tracker is built with the default cell size
generateSingleRouteHeatmap_DefaultSize(route, heatmapConfig) ==
    processRoute(route, NewTracker(createHeatmapConfig(DEFAULT_HEATMAP_SIZE_KM,
                                                       heatmapConfig.referencePoint)))

generateSingleRouteHeatmap(route, heatmapConfig) ==
    processRoute(route, NewTracker(heatmapConfig))

RECURSIVE RecentRoutesLoop(_, _)
RecentRoutesLoop(recentRoutes, t) ==
    IF recentRoutes = <<>> THEN t
    ELSE LET route == Head(recentRoutes)
         IN  RecentRoutesLoop(Tail(recentRoutes),
                IF route.error = NULL /\ Len(route.points) > 0
                THEN processRoute(route, t) ELSE t)

\* recentRoutes is what loadFromFolder('recent') returns
generateRecentRoutesHeatmap(heatmapConfig, recentRoutes) ==
    RecentRoutesLoop(recentRoutes, NewTracker(heatmapConfig))

RECURSIVE WeightedOverlapLoop(_, _, _, _)
WeightedOverlapLoop(cells, totalRouteDistance, allRoutesHeatmap, weightedOverlap) ==
    IF cells = <<>> THEN weightedOverlap
    ELSE LET cell == Head(cells)
             cellPercentage == Ratio(cell.distance, totalRouteDistance)
             allRoutesCellDistance ==
                 getDistance(allRoutesHeatmap, cell.cellX, cell.cellY)
         IN  WeightedOverlapLoop(Tail(cells), totalRouteDistance, allRoutesHeatmap,
                RAdd(weightedOverlap, RMul(cellPercentage, RInt(allRoutesCellDistance))))

\* variant: the aggregate's distance is added without the cell's share
RECURSIVE UnweightedOverlapLoop(_, _, _)
UnweightedOverlapLoop(cells, allRoutesHeatmap, overlapSum) ==
    IF cells = <<>> THEN overlapSum
    ELSE UnweightedOverlapLoop(Tail(cells), allRoutesHeatmap,
            RAdd(overlapSum,
                 RInt(getDistance(allRoutesHeatmap, Head(cells).cellX, Head(cells).cellY))))

calculateActualOverlapScore_NoShare(singleRouteHeatmap, allRoutesHeatmap) ==
    IF SumDistance(forEachNonEmpty(singleRouteHeatmap)) = 0
    THEN RInt(1)
    ELSE UnweightedOverlapLoop(forEachNonEmpty(singleRouteHeatmap), allRoutesHeatmap, RInt(0))

\* variant: each share is weighted by the aggregate's total, not by the cell's distance
calculateActualOverlapScore_AggregateTotal(singleRouteHeatmap, allRoutesHeatmap) ==
    IF SumDistance(forEachNonEmpty(singleRouteHeatmap)) = 0
    THEN RInt(1)
    ELSE RInt(getTotalDistance(allRoutesHeatmap))

\* variant: no early return for a route without distance
calculateActualOverlapScore_NoGuard(singleRouteHeatmap, allRoutesHeatmap) ==
    WeightedOverlapLoop(forEachNonEmpty(singleRouteHeatmap),
        SumDistance(forEachNonEmpty(singleRouteHeatmap)), allRoutesHeatmap, RInt(0))

\* variant: the result is scaled by the aggregate's total distance
calculateActualOverlapScore_Normalised(singleRouteHeatmap, allRoutesHeatmap) ==
    LET totalRouteDistance == SumDistance(forEachNonEmpty(singleRouteHeatmap))
        weightedOverlap == WeightedOverlapLoop(forEachNonEmpty(singleRouteHeatmap),
                              totalRouteDistance, allRoutesHeatmap, RInt(0))
        allRoutesDistance == getTotalDistance(allRoutesHeatmap)
    IN  IF totalRouteDistance = 0 THEN RInt(1)
        ELSE IF allRoutesDistance = 0 THEN weightedOverlap
        ELSE RMul(weightedOverlap, Ratio(1, allRoutesDistance))

calculateActualOverlapScore(singleRouteHeatmap, allRoutesHeatmap) ==
    LET totalRouteDistance == SumDistance(forEachNonEmpty(singleRouteHeatmap))
    IN  IF totalRouteDistance = 0
        THEN RInt(1)
        ELSE WeightedOverlapLoop(forEachNonEmpty(singleRouteHeatmap),
                totalRouteDistance, allRoutesHeatmap, RInt(0))

calculateOverlapScore(route, heatmapConfig, allRoutesHeatmap) ==
    LET singleRouteHeatmap == generateSingleRouteHeatmap(route, heatmapConfig)
    IN  [score               |-> calculateActualOverlapScore(singleRouteHeatmap, allRoutesHeatmap),
         routeHeatmap        |-> getAllCells(singleRouteHeatmap),
         routeHeatmapTracker |-> singleRouteHeatmap]

(***************************************************************************)
(* Inputs.                                                                 *)
(***************************************************************************)
\* <<lat, lon>> of the track points: below, at and beyond the reference point
RouteCoords == {<<0, 2>>, <<2, 2>>, <<6, 6>>}

TrackPoints == {RoutePoint(c[1], c[2]) : c \in RouteCoords}

\* what parseGPXWithXML can return as points (<<>>: no trkpt, or a parse failure)
ParsedPoints == UNION {[1..n -> TrackPoints] : n \in 0..MaxPoints}

\* the routes a loader returns, one per file
LoadedRoutes == {LoadedRoute(points) : points \in ParsedPoints}

\* routes built by hand, their points carrying no derived field
BareRoutes ==
    {[points |-> points, totalDistance |-> calculateRouteDistance(points), error |-> NULL] :
        points \in ParsedPoints}

Routes == LoadedRoutes \cup BareRoutes

\* the files of a folder: an unreadable one, a single point, and tracks
FolderTracks ==
    {<<>>,
     <<RoutePoint(2, 2)>>,
     <<RoutePoint(0, 2), RoutePoint(2, 2)>>,
     <<RoutePoint(2, 2), RoutePoint(6, 6)>>,
     <<RoutePoint(6, 6), RoutePoint(0, 2), RoutePoint(2, 2)>>}

FolderRoutes == {LoadedRoute(points) : points \in FolderTracks}

Batches == UNION {[1..n -> FolderRoutes] : n \in 0..MaxRoutes}

\* the heatmapSize values of a request; absent means the default
HeatmapSizes == {1, DEFAULT_HEATMAP_SIZE_KM}

Configs == {createHeatmapConfig(size, DEFAULT_REFERENCE_POINT) : size \in HeatmapSizes}

\* arguments of direct addDistance calls
LatLngInputs   == {<<1, 2>>, <<3, 4>>, <<4, 4>>}
DistanceInputs == {0, 1, 2}

(***************************************************************************)
(* State.                                                                  *)
(***************************************************************************)
VARIABLES
    tracker,           \* an ArrayHeatmapTracker used through its interface
    added,             \* history: the addDistance calls on it since construction or reset
    lastOp,            \* history: the last call made on it, with the addDistance calls it made
    pc,                \* the saved-routes request: "idle", "aggregated", "scored"
    heatmapConfig,     \* the request's shared HeatmapConfig
    recentRoutes,      \* what loadFromFolder('recent') returned
    allRoutesHeatmap,  \* the tracker generateRecentRoutesHeatmap returned
    scoredRoute,       \* the route of the last calculateOverlapScore call
    overlap,           \* what that call returned
    located,           \* history: the latLngToHeatmap calls made, with their results
    savedRoutes,       \* the routes loadFromFolder('saved') returned to the request
    scores,            \* per saved route: its overlapScore once its task has run
    builds,            \* history: the generateRecentRoutesHeatmap calls of the request
    response,          \* the body of the last saved-routes response
    loader,            \* a DatabaseRouteLoader: the database it reads and its last call
    analysis,          \* the heatmap-analysis endpoint: its last request and answer
    sync,              \* a Strava sync: the items, the position and the counters
    routeList          \* useRoutes: the routes received and the list selected

vars == <<tracker, added, lastOp, pc, heatmapConfig, recentRoutes, allRoutesHeatmap,
          scoredRoute, overlap, located, savedRoutes, scores, builds,
          response, loader, analysis, sync, routeList>>

trackerVars == <<tracker, added, lastOp, located>>
requestVars == <<pc, heatmapConfig, recentRoutes, allRoutesHeatmap, scoredRoute, overlap,
                 savedRoutes, scores, builds>>

ioVars == <<response, loader, analysis, sync, routeList>>

NoOp == [op |-> "none", routes |-> <<>>, calls |-> <<>>, wasEmpty |-> TRUE]

DefaultConfig == createHeatmapConfig(DEFAULT_HEATMAP_SIZE_KM, DEFAULT_REFERENCE_POINT)

NoOverlap ==
    [score |-> RInt(0), routeHeatmap |-> <<>>, routeHeatmapTracker |-> NewTracker(DefaultConfig)]

RequestIdle ==
    /\ pc = "idle"
    /\ heatmapConfig = DefaultConfig
    /\ recentRoutes = <<>>
    /\ allRoutesHeatmap = NewTracker(DefaultConfig)
    /\ scoredRoute = LoadedRoute(<<>>)
    /\ overlap = NoOverlap
    /\ savedRoutes = <<>>
    /\ scores = <<>>
    /\ builds = 0

\* nothing has been answered, loaded, synced or listed
NoResponse  == <<>>
LoaderIdle  == loader = [call |-> "none"]
AnalysisIdle == analysis = [status |-> 0]
SyncIdle    == sync = [phase |-> "idle"]
ListIdle    == routeList = [folder |-> NULL, received |-> <<>>, selected |-> <<>>]

IoIdle ==
    /\ response = NoResponse
    /\ LoaderIdle
    /\ AnalysisIdle
    /\ SyncIdle
    /\ ListIdle

\* a tracker has been constructed with some config; no request is running
InitTracker ==
    /\ \E config \in Configs : tracker = NewTracker(config)
    /\ added = <<>>
    /\ lastOp = NoOp
    /\ located = <<>>
    /\ RequestIdle
    /\ IoIdle

\* no request is running; the tracker above is not used
InitRequest ==
    /\ tracker = NewTracker(DefaultConfig)
    /\ added = <<>>
    /\ lastOp = NoOp
    /\ located = <<>>
    /\ RequestIdle
    /\ IoIdle

(***************************************************************************)
(* The tracker through its interface.                                      *)
(***************************************************************************)
AddDistance(lat, lng, distance) ==
    /\ Len(added) < MaxAdds
    /\ tracker' = addDistance(tracker, lat, lng, distance)
    /\ added' = Append(added, <<lat, lng, distance>>)
    /\ lastOp' = [op |-> "addDistance", routes |-> <<>>, calls |-> <<<<lat, lng, distance>>>>,
                  wasEmpty |-> (tracker.heatmap = <<>>)]
    /\ UNCHANGED <<located, requestVars, ioVars>>

Reset ==
    /\ tracker' = reset(tracker)
    /\ added' = <<>>
    /\ lastOp' = [op |-> "reset", routes |-> <<>>, calls |-> <<>>,
                  wasEmpty |-> (tracker.heatmap = <<>>)]
    /\ UNCHANGED <<located, requestVars, ioVars>>

NextTracker ==
    \/ \E ll \in LatLngInputs, distance \in DistanceInputs : AddDistance(ll[1], ll[2], distance)
    \/ Reset

SpecTracker == InitTracker /\ [][NextTracker]_vars

(***************************************************************************)
(* The route processor on a tracker.  The tracker starts fresh or holding  *)
(* a batch of routes, and one call of the processor on it is followed.     *)
(***************************************************************************)
InitProcessor ==
    /\ \E config \in Configs, routes \in Batches :
          tracker = processRoutes(routes, NewTracker(config))
    /\ added = <<>>
    /\ lastOp = NoOp
    /\ located = <<>>
    /\ RequestIdle
    /\ IoIdle

ProcessRoute(route) ==
    LET run == ProcessRouteRun(route, [tracker |-> tracker, calls |-> <<>>])
    IN  /\ lastOp = NoOp
        /\ tracker' = run.tracker
        /\ lastOp' = [op |-> "processRoute", routes |-> <<route>>, calls |-> run.calls,
                      wasEmpty |-> (tracker.heatmap = <<>>)]
        /\ UNCHANGED <<added, located, requestVars, ioVars>>

ProcessRoutes(routes) ==
    LET run == ProcessRoutesRun(routes, tracker)
    IN  /\ lastOp = NoOp
        /\ tracker' = run.tracker
        /\ lastOp' = [op |-> "processRoutes", routes |-> routes, calls |-> run.calls,
                      wasEmpty |-> (tracker.heatmap = <<>>)]
        /\ UNCHANGED <<added, located, requestVars, ioVars>>

NextProcessor ==
    \/ \E route \in Routes : ProcessRoute(route)
    \/ \E routes \in Batches : ProcessRoutes(routes)

SpecProcessor == InitProcessor /\ [][NextProcessor]_vars

(***************************************************************************)
(* GET /api/routes?folder=saved: the aggregate, then the scores.           *)
(***************************************************************************)
GenerateRecentRoutesHeatmap(heatmapSizeKm, recent) ==
    /\ pc = "idle"
    /\ heatmapConfig' = [heatmapSizeKm |-> heatmapSizeKm,
                         referencePoint |-> DEFAULT_REFERENCE_POINT]
    /\ recentRoutes' = recent
    /\ allRoutesHeatmap' = generateRecentRoutesHeatmap(heatmapConfig', recent)
    /\ builds' = builds + 1
    /\ pc' = "aggregated"
    /\ UNCHANGED <<scoredRoute, overlap, savedRoutes, scores, trackerVars, ioVars>>

\* One task of validRoutes.map: the route has passed the filter of validRoutes.
\* The tasks share nothing but allRoutesHeatmap, which none of them writes, so
\* one task is followed per request.
CalculateOverlapScore(route) ==
    /\ pc = "aggregated"
    /\ route.error = NULL /\ Len(route.points) > 0
    /\ scoredRoute' = route
    /\ overlap' = calculateOverlapScore(route, heatmapConfig, allRoutesHeatmap)
    /\ pc' = "scored"
    /\ UNCHANGED <<heatmapConfig, recentRoutes, allRoutesHeatmap, savedRoutes, scores, builds,
                   trackerVars, ioVars>>

\* the response is sent; the request's objects are dropped
Respond ==
    /\ pc \in {"aggregated", "scored"}
    /\ pc' = "idle"
    /\ heatmapConfig' = DefaultConfig
    /\ recentRoutes' = <<>>
    /\ allRoutesHeatmap' = NewTracker(DefaultConfig)
    /\ scoredRoute' = LoadedRoute(<<>>)
    /\ overlap' = NoOverlap
    /\ savedRoutes' = <<>>
    /\ scores' = <<>>
    /\ builds' = 0
    /\ UNCHANGED <<trackerVars, ioVars>>

NextScore ==
    \/ \E size \in HeatmapSizes, recent \in Batches : GenerateRecentRoutesHeatmap(size, recent)
    \/ \E route \in LoadedRoutes : CalculateOverlapScore(route)
    \/ Respond

SpecScore == InitRequest /\ [][NextScore]_vars

(***************************************************************************)
(* Vocabulary of the properties.                                           *)
(***************************************************************************)
RLess(a, b) == a.n * b.d < b.n * a.d

RECURSIVE Sum(_, _)
Sum(f, S) ==
    IF S = {} THEN 0
    ELSE LET x == CHOOSE y \in S : TRUE
         IN  f[x] + Sum(f, S \ {x})

\* the cells a tracker reports with distance > 0, as <<cellX, cellY>>
NonEmptyCells(t) ==
    LET all == getAllCells(t)
    IN  {<<all[i].cellX, all[i].cellY>> : i \in {j \in 1..Len(all) : all[j].distance > 0}}

\* the distance a tracker reports for each of a set of cells
DistanceIn(t, S) == [c \in S |-> getDistance(t, c[1], c[2])]

\* the route index and the aggregate index of the last scoring
RouteIndex == overlap.routeHeatmapTracker
TotalRouteDistance == Sum(DistanceIn(RouteIndex, NonEmptyCells(RouteIndex)), NonEmptyCells(RouteIndex))

(***************************************************************************)
(* C1.  For a route index of positive total distance, the score is the sum *)
(* over the route index's non-empty cells c of                             *)
(* (c.distance / totalRouteDistance) * aggregate.getDistance(c); cells of  *)
(* the aggregate alone add nothing.                                        *)
(***************************************************************************)
C1_ScoreIsWeightedSum ==
    (pc = "scored" /\ TotalRouteDistance > 0) =>
        LET cells == NonEmptyCells(RouteIndex)
            products == [c \in cells |->
                            getDistance(RouteIndex, c[1], c[2])
                            * getDistance(allRoutesHeatmap, c[1], c[2])]
        IN  overlap.score = Ratio(Sum(products, cells), TotalRouteDistance)

\* a route over two cells of unequal distance, an aggregate that covers one of
\* them and a cell the route never enters
C1_Witness ==
    /\ pc = "scored"
    /\ \E c1, c2 \in NonEmptyCells(RouteIndex) :
          /\ getDistance(RouteIndex, c1[1], c1[2]) # getDistance(RouteIndex, c2[1], c2[2])
          /\ getDistance(allRoutesHeatmap, c1[1], c1[2]) > 0
          /\ getDistance(allRoutesHeatmap, c2[1], c2[2]) = 0
    /\ NonEmptyCells(allRoutesHeatmap) \ NonEmptyCells(RouteIndex) # {}
    /\ overlap.score.d > 1

(***************************************************************************)
(* C2.  As claimed: a route scored against an aggregate without distance   *)
(* in any cell the route touches gets score 0, whatever the route.         *)
(***************************************************************************)
AggregateMissesRoute ==
    \A c \in NonEmptyCells(RouteIndex) : getDistance(allRoutesHeatmap, c[1], c[2]) = 0

C2_Original ==
    (pc = "scored" /\ AggregateMissesRoute) => overlap.score = RInt(0)

(***************************************************************************)
(* C2, amended.  A route of positive total distance scored against an      *)
(* aggregate without distance in any cell the route touches (an empty      *)
(* aggregate included) gets score 0.                                       *)
(***************************************************************************)
C2_ZeroOutsideFootprint ==
    (pc = "scored" /\ TotalRouteDistance > 0 /\ AggregateMissesRoute) =>
        overlap.score = RInt(0)

\* the aggregate holds distance, all of it in cells the route does not touch
C2_Witness ==
    /\ pc = "scored"
    /\ TotalRouteDistance > 0
    /\ getTotalDistance(allRoutesHeatmap) > 0
    /\ AggregateMissesRoute
    /\ overlap.score = RInt(0)

(***************************************************************************)
(* C3.  A route index of total distance 0 gets the score 1.0, whatever the *)
(* aggregate holds.                                                        *)
(***************************************************************************)
C3_SentinelOnZeroDistance ==
    (pc = "scored" /\ TotalRouteDistance = 0) => overlap.score = RInt(1)

\* the route index holds a cell, of distance 0 (a zero-length segment), and
\* the aggregate holds distance in that very cell
C3_Witness ==
    /\ pc = "scored"
    /\ TotalRouteDistance = 0
    /\ \E i \in 1..Len(getAllCells(RouteIndex)) :
          LET cell == getAllCells(RouteIndex)[i]
          IN  getDistance(allRoutesHeatmap, cell.cellX, cell.cellY) > 0
    /\ overlap.score = RInt(1)

(***************************************************************************)
(* C4.  For a route index of positive total distance the score does not    *)
(* fall when the aggregate grows: neither by one more route processed into *)
(* it nor by one more distance added to any cell.                          *)
(***************************************************************************)
C4_MonotonicInAggregate ==
    (pc = "scored" /\ TotalRouteDistance > 0) =>
        /\ \A extra \in FolderRoutes :
              RLeq(overlap.score,
                   calculateActualOverlapScore(RouteIndex, processRoute(extra, allRoutesHeatmap)))
        /\ \A ll \in LatLngInputs, distance \in DistanceInputs :
              RLeq(overlap.score,
                   calculateActualOverlapScore(RouteIndex,
                       addDistance(allRoutesHeatmap, ll[1], ll[2], distance)))

\* one more route raises the score of a route that already overlaps, and
\* another one leaves it as it is
C4_Witness ==
    /\ pc = "scored"
    /\ TotalRouteDistance > 0
    /\ RLess(RInt(0), overlap.score)
    /\ \E extra \in FolderRoutes :
          RLess(overlap.score,
                calculateActualOverlapScore(RouteIndex, processRoute(extra, allRoutesHeatmap)))
    /\ \E extra \in FolderRoutes :
          /\ getTotalDistance(processRoute(extra, allRoutesHeatmap))
                > getTotalDistance(allRoutesHeatmap)
          /\ overlap.score =
                calculateActualOverlapScore(RouteIndex, processRoute(extra, allRoutesHeatmap))

(***************************************************************************)
(* C5.  The score of a route against the aggregate built from that route   *)
(* alone is not below its score against an empty aggregate, and is above 0 *)
(* when the route has a cell of positive distance.                         *)
(***************************************************************************)
SelfAggregate == generateRecentRoutesHeatmap(heatmapConfig, <<scoredRoute>>)
SelfScore     == calculateActualOverlapScore(RouteIndex, SelfAggregate)
EmptyScore    == calculateActualOverlapScore(RouteIndex, NewTracker(heatmapConfig))

C5_SelfOverlap ==
    pc = "scored" =>
        /\ RLeq(EmptyScore, SelfScore)
        /\ NonEmptyCells(RouteIndex) # {} => RLess(RInt(0), SelfScore)
        /\ recentRoutes = <<scoredRoute>> => overlap.score = SelfScore

\* the request whose recent folder holds the scored route and nothing else
C5_Witness ==
    /\ pc = "scored"
    /\ recentRoutes = <<scoredRoute>>
    /\ Cardinality(NonEmptyCells(RouteIndex)) = 2
    /\ RLess(EmptyScore, overlap.score)

(***************************************************************************)
(* Vocabulary of the tracker's properties.                                 *)
(***************************************************************************)
\* the cells around the reference point, and the cells of every input
Cells == (-1..1) \X (-1..1)
Grid  == (-2..2) \X (-2..2)

\* every cell a tracker holds an entry for, as <<cellX, cellY>>
EntryCells(t) ==
    LET all == getAllCells(t)
    IN  {<<all[i].cellX, all[i].cellY>> : i \in 1..Len(all)}

\* the same distance in every cell, the same cell count, the same total
SameTotals(t1, t2) ==
    /\ LET S == Cells \cup EntryCells(t1) \cup EntryCells(t2)
       IN  DistanceIn(t1, S) = DistanceIn(t2, S)
    /\ getCellCount(t1) = getCellCount(t2)
    /\ getTotalDistance(t1) = getTotalDistance(t2)

\* the same answer to every query
SameAnswers(t1, t2) ==
    /\ SameTotals(t1, t2)
    /\ getMaxDistance(t1) = getMaxDistance(t2)
    /\ getAverageDistance(t1) = getAverageDistance(t2)
    /\ getAllCells(t1) = getAllCells(t2)
    /\ getHeatmap(t1) = getHeatmap(t2)

Perms(n) == {f \in [1..n -> 1..n] : \A i, j \in 1..n : f[i] = f[j] => i = j}

\* the tracker after the addDistance calls <<lat, lng, distance>> of a sequence
RECURSIVE Replay(_, _)
Replay(calls, t) ==
    IF calls = <<>> THEN t
    ELSE Replay(Tail(calls), addDistance(t, Head(calls)[1], Head(calls)[2], Head(calls)[3]))

Reordered(f) == [i \in 1..Len(added) |-> added[f[i]]]

C7_ResetIsFresh ==
    LET fresh == NewTracker(tracker.heatmapConfig)
    IN  /\ reset(reset(tracker)) = reset(tracker)
        /\ SameAnswers(reset(tracker), fresh)
        /\ lastOp.op = "reset" =>
              /\ SameAnswers(tracker, fresh)
              /\ \A ll \in LatLngInputs, distance \in DistanceInputs :
                    SameAnswers(addDistance(tracker, ll[1], ll[2], distance),
                                addDistance(fresh, ll[1], ll[2], distance))

\* reset() has just cleared a tracker that held distance
C7_Witness ==
    /\ lastOp.op = "reset"
    /\ ~lastOp.wasEmpty
    /\ getCellCount(tracker) = 0

(***************************************************************************)
(* Vocabulary of the processor's properties.                               *)
(***************************************************************************)
\* for each pair of consecutive points: the arithmetic midpoint and the distance
SegmentCalls(points) ==
    [i \in 1..(Len(points) - 1) |->
        <<(points[i].lat + points[i + 1].lat) \div 2,
          (points[i].lon + points[i + 1].lon) \div 2,
          calculateDistance(points[i].lat, points[i].lon,
                            points[i + 1].lat, points[i + 1].lon)>>]

\* the rectangle of cell c holds the point: reference + c * size <= point < reference + (c + 1) * size
CellContains(config, c, lat, lng) ==
    LET height   == config.heatmapSizeKm * Scale
        widthNum == config.heatmapSizeKm * Scale * CosDen     \* width = widthNum / CosNum
        dLat     == lat - config.referencePoint[1]
        dLng     == lng - config.referencePoint[2]
    IN  /\ c[2] * height <= dLat /\ dLat < (c[2] + 1) * height
        /\ c[1] * widthNum <= dLng * CosNum /\ dLng * CosNum < (c[1] + 1) * widthNum

\* the distance the segments of a point sequence put into cell c
SegmentsIn(config, points, c) ==
    LET calls == SegmentCalls(points)
        here  == {i \in 1..(Len(points) - 1) : CellContains(config, c, calls[i][1], calls[i][2])}
    IN  Sum([i \in here |-> calls[i][3]], here)

(***************************************************************************)
(* C8.  processRoute on a route of 0 or 1 points calls addDistance not     *)
(* once and leaves the tracker as it was; on an empty tracker it leaves    *)
(* getCellCount() = 0.                                                     *)
(***************************************************************************)
C8_ShortRouteIsNoOp ==
    [][(lastOp'.op = "processRoute" /\ Len(lastOp'.routes[1].points) < 2) =>
          /\ lastOp'.calls = <<>>
          /\ tracker' = tracker
          /\ lastOp'.wasEmpty => getCellCount(tracker') = 0]_vars

\* a one-point route has been processed into a tracker that holds distance
C8_Witness ==
    /\ lastOp.op = "processRoute"
    /\ Len(lastOp.routes[1].points) = 1
    /\ ~lastOp.wasEmpty
    /\ getCellCount(tracker) > 0

(***************************************************************************)
(* C9.  processRoute on a route of n >= 2 points calls addDistance n - 1   *)
(* times, once per pair of consecutive points and in their order, with the *)
(* pair's arithmetic midpoint and its whole distance; the distance lands   *)
(* in the one cell whose rectangle holds the midpoint.  So a two-point     *)
(* route of positive length, on an empty tracker, gives getCellCount() = 1 *)
(* and that cell holds the segment's distance.                             *)
(***************************************************************************)
C9_OneCallPerSegment ==
    [][(lastOp'.op = "processRoute" /\ Len(lastOp'.routes[1].points) >= 2) =>
          LET points == lastOp'.routes[1].points
              config == tracker.heatmapConfig
              calls  == SegmentCalls(points)
          IN  /\ Len(lastOp'.calls) = Len(points) - 1
              /\ \A i \in 1..(Len(points) - 1) : lastOp'.calls[i] = calls[i]
              /\ \A i \in 1..(Len(points) - 1) :
                    Cardinality({c \in Grid : CellContains(config, c, calls[i][1], calls[i][2])}) = 1
              /\ \A c \in Grid \cup EntryCells(tracker') :
                    getDistance(tracker', c[1], c[2])
                        = getDistance(tracker, c[1], c[2]) + SegmentsIn(config, points, c)
              /\ (lastOp'.wasEmpty /\ Len(points) = 2 /\ calls[1][3] > 0) =>
                    /\ getCellCount(tracker') = 1
                    /\ getTotalDistance(tracker') = calls[1][3]
                    /\ \E c \in Grid :
                          /\ CellContains(config, c, calls[1][1], calls[1][2])
                          /\ getDistance(tracker', c[1], c[2]) = calls[1][3]]_vars

\* a three-point route whose two segments lie in two cells has been processed
\* into a tracker that held distance
C9_Witness ==
    /\ lastOp.op = "processRoute"
    /\ Len(lastOp.routes[1].points) = 3
    /\ ~lastOp.wasEmpty
    /\ Len(lastOp.calls) = 2
    /\ lastOp.calls[1][3] > 0 /\ lastOp.calls[2][3] > 0
    /\ latLngToHeatmap(lastOp.calls[1][1], lastOp.calls[1][2], tracker.heatmapConfig)
          # latLngToHeatmap(lastOp.calls[2][1], lastOp.calls[2][2], tracker.heatmapConfig)

(***************************************************************************)
(* C10.  processRoutes leaves the tracker with what the routes alone put   *)
(* into a new tracker, whatever the tracker held before, and a second call *)
(* with the same routes leaves it as the first did.                        *)
(***************************************************************************)
RECURSIVE BatchIn(_, _, _)
BatchIn(config, routes, c) ==
    IF routes = <<>> THEN 0
    ELSE SegmentsIn(config, Head(routes).points, c) + BatchIn(config, Tail(routes), c)

C10_ProcessRoutesResetsFirst ==
    [][lastOp'.op = "processRoutes" =>
          LET routes == lastOp'.routes
              config == tracker.heatmapConfig
          IN  /\ tracker' = ProcessRoutesLoop(routes,
                                [tracker |-> NewTracker(config), calls |-> <<>>]).tracker
              /\ \A c \in Grid \cup EntryCells(tracker') :
                    getDistance(tracker', c[1], c[2]) = BatchIn(config, routes, c)
              /\ processRoutes(routes, tracker') = tracker']_vars

\* two routes have been processed into a tracker that held other distance
C10_Witness ==
    /\ lastOp.op = "processRoutes"
    /\ ~lastOp.wasEmpty
    /\ Len(lastOp.routes) = 2
    /\ getCellCount(tracker) >= 2

(***************************************************************************)
(* Building an aggregate: processRoutes on a tracker, or the request's     *)
(* generateRecentRoutesHeatmap.                                            *)
(***************************************************************************)
NextAggregate ==
    \/ \E routes \in Batches : pc = "idle" /\ ProcessRoutes(routes)
    \/ \E size \in HeatmapSizes, recent \in Batches :
          lastOp = NoOp /\ GenerateRecentRoutesHeatmap(size, recent)
    \/ Respond

SpecAggregate == InitTracker /\ [][NextAggregate]_vars

\* the index of one route alone
Alone(config, route) == processRoute(route, NewTracker(config))

RECURSIVE SumAlone(_, _, _)
SumAlone(config, routes, c) ==
    IF routes = <<>> THEN 0
    ELSE getDistance(Alone(config, Head(routes)), c[1], c[2]) + SumAlone(config, Tail(routes), c)

RECURSIVE SumCellCounts(_, _)
SumCellCounts(config, routes) ==
    IF routes = <<>> THEN 0
    ELSE getCellCount(Alone(config, Head(routes))) + SumCellCounts(config, Tail(routes))

DisjointCells(config, routes) ==
    \A i, j \in 1..Len(routes) :
        i # j => NonEmptyCells(Alone(config, routes[i]))
                    \cap NonEmptyCells(Alone(config, routes[j])) = {}

\* aggregate is the sum of the routes' own indexes
Additive(aggregate, routes) ==
    LET config == aggregate.heatmapConfig
    IN  /\ \A c \in Grid \cup EntryCells(aggregate) :
              getDistance(aggregate, c[1], c[2]) = SumAlone(config, routes, c)
        /\ DisjointCells(config, routes) =>
              getCellCount(aggregate) = SumCellCounts(config, routes)

AfterQuery(t) == t

\* variant: getHeatmap() hands out this.heatmap itself
AfterWriteToReturnedMap_Aliased(t, key, value) ==
    [t EXCEPT !.heatmap = MapSet(t.heatmap, key, value)]

\* the tracker after getHeatmap().set(key, value): the Map returned is a copy
AfterWriteToReturnedMap(t, key, value) == t

Query ==
    /\ tracker' = AfterQuery(tracker)
    /\ lastOp' = [op |-> "query", routes |-> <<>>, calls |-> <<>>,
                  wasEmpty |-> (tracker.heatmap = <<>>)]
    /\ UNCHANGED <<added, located, requestVars, ioVars>>

WriteToReturnedMap(cellX, cellY, value) ==
    /\ tracker' = AfterWriteToReturnedMap(tracker, getCellKey(cellX, cellY), value)
    /\ lastOp' = [op |-> "getHeatmap", routes |-> <<>>, calls |-> <<>>,
                  wasEmpty |-> (tracker.heatmap = <<>>)]
    /\ UNCHANGED <<added, located, requestVars, ioVars>>

NextIndex ==
    \/ \E ll \in LatLngInputs, distance \in DistanceInputs : AddDistance(ll[1], ll[2], distance)
    \/ Reset
    \/ Query
    \/ \E ll \in LatLngInputs :
          LET cell == latLngToHeatmap(ll[1], ll[2], tracker.heatmapConfig)
          IN  WriteToReturnedMap(cell.cellX, cell.cellY, 0)

SpecIndex == InitTracker /\ [][NextIndex]_vars

(***************************************************************************)
(* C12.  As stated: every cell getAllCells() returns has distance > 0, and *)
(* getAllCells() lists the cells forEachNonEmpty visits and no other, so   *)
(* its length is getCellCount().  addDistance with distance 0 on a cell    *)
(* without entry refutes it.                                               *)
(***************************************************************************)
C12_Original ==
    /\ \A i \in 1..Len(getAllCells(tracker)) : getAllCells(tracker)[i].distance > 0
    /\ getAllCells(tracker) = forEachNonEmpty(tracker)
    /\ Len(getAllCells(tracker)) = getCellCount(tracker)

\* a cell of distance 0 is reported next to a cell of positive distance
C12_Witness ==
    /\ getCellCount(tracker) = 1
    /\ Len(getAllCells(tracker)) = 2
    /\ \E i \in 1..2 : getAllCells(tracker)[i].distance = 0

(***************************************************************************)
(* C13.  As stated: an addDistance call with distance 0 changes no answer  *)
(* of getDistance, getAllCells, getHeatmap, getCellCount, getTotalDistance,*)
(* getMaxDistance and getAverageDistance.  On a cell without entry the     *)
(* call adds an entry, which getAllCells and getHeatmap show.              *)
(***************************************************************************)
C13_Original ==
    [][(lastOp'.op = "addDistance" /\ lastOp'.calls[1][3] = 0)
          => SameAnswers(tracker', tracker)]_vars

\* addDistance with distance 0 has put an entry into a tracker that holds
\* distance elsewhere
C13_Witness ==
    /\ lastOp.op = "addDistance"
    /\ lastOp.calls[1][3] = 0
    /\ ~lastOp.wasEmpty
    /\ getCellCount(tracker) = 1
    /\ Len(getHeatmap(tracker)) = 2

(***************************************************************************)
(* C17.  getDistance returns, for every cell, the sum of the distances     *)
(* added to that cell since construction or the last reset: 0 for a cell   *)
(* that received none, cells of negative coordinates included.             *)
(***************************************************************************)
RECURSIVE AddedTo(_, _, _)
AddedTo(calls, config, c) ==
    IF calls = <<>> THEN 0
    ELSE (IF CellContains(config, c, Head(calls)[1], Head(calls)[2]) THEN Head(calls)[3] ELSE 0)
         + AddedTo(Tail(calls), config, c)

C17_GetDistanceIsSumSinceReset ==
    \A c \in Grid \cup EntryCells(tracker) :
        getDistance(tracker, c[1], c[2]) = AddedTo(added, tracker.heatmapConfig, c)

\* two calls have added into one cell below the reference point, and another
\* cell of negative coordinates has received nothing
C17_Witness ==
    /\ \E c \in Grid :
          /\ c[2] < 0
          /\ getDistance(tracker, c[1], c[2]) = 3
          /\ Cardinality({i \in 1..Len(added) :
                            CellContains(tracker.heatmapConfig, c, added[i][1], added[i][2])
                            /\ added[i][3] > 0}) = 2
    /\ getDistance(tracker, -1, -1) = 0
    /\ findCell(tracker, -1, -1) = Undefined

(***************************************************************************)
(* C18.  getAverageDistance returns 0 when no cell holds distance (a new   *)
(* or reset tracker included) and otherwise the total distance divided by  *)
(* the number of cells of distance > 0.                                    *)
(***************************************************************************)
C18_AverageOverNonEmpty ==
    LET S == NonEmptyCells(tracker)
    IN  /\ getAverageDistance(tracker) =
              IF S = {} THEN RInt(0)
              ELSE Ratio(Sum(DistanceIn(tracker, S), S), Cardinality(S))
        /\ lastOp.op \in {"none", "reset"} => getAverageDistance(tracker) = RInt(0)
        /\ getAverageDistance(tracker).d > 0

\* two cells of distance 1 and 2 next to an entry of distance 0: the average is 3/2
C18_Witness ==
    /\ Len(tracker.heatmap) = 3
    /\ getCellCount(tracker) = 2
    /\ getAverageDistance(tracker) = [n |-> 3, d |-> 2]

(***************************************************************************)
(* C20.  A query, and a write to the Map getHeatmap returned, leave the    *)
(* tracker as it is; every step that is not a reset, each addDistance call *)
(* among them, lowers no cell's distance and none of getCellCount,         *)
(* getTotalDistance, getMaxDistance.                                       *)
(***************************************************************************)
NonDecreasing(t1, t2) ==
    /\ \A c \in Cells \cup EntryCells(t1) :
          getDistance(t2, c[1], c[2]) >= getDistance(t1, c[1], c[2])
    /\ getCellCount(t2) >= getCellCount(t1)
    /\ getTotalDistance(t2) >= getTotalDistance(t1)
    /\ getMaxDistance(t2) >= getMaxDistance(t1)

C20_OnlyResetShrinks ==
    [][/\ lastOp'.op \in {"query", "getHeatmap"} => tracker' = tracker
       /\ lastOp'.op # "reset" => NonDecreasing(tracker, tracker')]_vars

\* addDistance has just added to a cell that already held distance
C20_Witness ==
    /\ lastOp.op = "addDistance"
    /\ lastOp.calls[1][3] > 0
    /\ LET cell == latLngToHeatmap(lastOp.calls[1][1], lastOp.calls[1][2], tracker.heatmapConfig)
       IN  getDistance(tracker, cell.cellX, cell.cellY) > lastOp.calls[1][3]
    /\ getCellCount(tracker) = 2

(***************************************************************************)
(* GET /api/routes?folder=saved with any heatmapSize a caller can send.    *)
(* parseFloat(searchParams.get('heatmapSize') || '5') is used as it comes: *)
(* the handler, createHeatmapConfig and the constructor test nothing.      *)
(***************************************************************************)
\* heatmapSize of the query string, parsed: the sizes above and a negative one
RequestedSizes == HeatmapSizes \cup {-1}

NextRequest ==
    \/ \E size \in RequestedSizes, recent \in Batches : GenerateRecentRoutesHeatmap(size, recent)
    \/ \E route \in FolderRoutes : CalculateOverlapScore(route)
    \/ Respond

SpecRequest == InitRequest /\ [][NextRequest]_vars

(***************************************************************************)
(* C14.  As stated: every ArrayHeatmapTracker a request builds has         *)
(* heatmapSizeKm > 0 (no error path exists in the handler for the size).   *)
(* A request with heatmapSize=-1 refutes it.                               *)
(***************************************************************************)
C14_Original ==
    /\ pc # "idle" => allRoutesHeatmap.heatmapConfig.heatmapSizeKm > 0
    /\ pc = "scored" => overlap.routeHeatmapTracker.heatmapConfig.heatmapSizeKm > 0

\* addDistance has run on trackers of negative cell size: the aggregate and
\* the route index both hold distance
C14_Witness ==
    /\ pc = "scored"
    /\ heatmapConfig.heatmapSizeKm < 0
    /\ getCellCount(allRoutesHeatmap) > 0
    /\ getCellCount(overlap.routeHeatmapTracker) > 0

(***************************************************************************)
(* latLngToHeatmap called for points around the reference point, between   *)
(* writes to a tracker of the same config.                                 *)
(***************************************************************************)
\* <<lat, lng>>: the reference point, a point below it on both axes, a point
\* above it in its cell, and points sharing one coordinate with those
GridPoints == {<<2, 2>>, <<1, 1>>, <<3, 5>>, <<1, 5>>, <<3, 1>>}

LatLngToHeatmap(lat, lng) ==
    /\ Len(located) < MaxLocates
    /\ located' = Append(located,
                         [lat |-> lat, lng |-> lng,
                          cell |-> latLngToHeatmap(lat, lng, tracker.heatmapConfig),
                          wasEmpty |-> (tracker.heatmap = <<>>)])
    /\ UNCHANGED <<tracker, added, lastOp, requestVars, ioVars>>

NextGrid ==
    \/ \E p \in GridPoints : LatLngToHeatmap(p[1], p[2])
    \/ \E ll \in LatLngInputs : added = <<>> /\ AddDistance(ll[1], ll[2], 1)
    \/ Reset

SpecGrid == InitTracker /\ [][NextGrid]_vars

\* the cell as <<cellX, cellY>>
CellOf(r) == <<r.cell.cellX, r.cell.cellY>>

(***************************************************************************)
(* C15.  latLngToHeatmap returns the cell whose rectangle holds the point: *)
(* cellY * height <= lat - refLat < (cellY + 1) * height and the same for  *)
(* cellX with the width, which is floor and not truncation.  The reference *)
(* point is in cell (0, 0), a point less than one cell below the reference *)
(* on an axis has -1 on that axis, and two points get the same cell exactly*)
(* when one rectangle holds both.                                          *)
(***************************************************************************)
C15_FloorCell ==
    LET config == tracker.heatmapConfig
        height == config.heatmapSizeKm * Scale
    IN  /\ \A i \in 1..Len(located) :
              LET r == located[i]
              IN  /\ CellContains(config, CellOf(r), r.lat, r.lng)
                  /\ <<r.lat, r.lng>> = config.referencePoint => CellOf(r) = <<0, 0>>
                  /\ (r.lat < config.referencePoint[1]
                        /\ r.lat >= config.referencePoint[1] - height) => r.cell.cellY = -1
                  /\ (r.lng < config.referencePoint[2]
                        /\ CellContains(config, <<-1, r.cell.cellY>>, r.lat, r.lng))
                        => r.cell.cellX = -1
        /\ \A i, j \in 1..Len(located) :
              (CellOf(located[i]) = CellOf(located[j]))
                 <=> \E c \in Grid :
                        /\ CellContains(config, c, located[i].lat, located[i].lng)
                        /\ CellContains(config, c, located[j].lat, located[j].lng)

\* the reference point, in cell (0, 0), and the point below it on both axes,
\* in cell (-1, -1)
C15_Witness ==
    /\ Len(located) = 2
    /\ <<located[1].lat, located[1].lng>> = tracker.heatmapConfig.referencePoint
    /\ CellOf(located[1]) = <<0, 0>>
    /\ located[2].lat < located[1].lat /\ located[2].lng < located[1].lng
    /\ CellOf(located[2]) = <<-1, -1>>

(***************************************************************************)
(* C16.  latLngToHeatmap gives the same cell for the same point and config *)
(* at every call, whatever addDistance and reset did to a tracker in       *)
(* between; cellX is the same for points of equal longitude and cellY for  *)
(* points of equal latitude.                                               *)
(***************************************************************************)
C16_PureAndRectilinear ==
    /\ \A i \in 1..Len(located) :
          located[i].cell
             = latLngToHeatmap(located[i].lat, located[i].lng, tracker.heatmapConfig)
    /\ \A i, j \in 1..Len(located) :
          /\ located[i].lng = located[j].lng => located[i].cell.cellX = located[j].cell.cellX
          /\ located[i].lat = located[j].lat => located[i].cell.cellY = located[j].cell.cellY

\* two points of equal longitude and unequal latitude, the second located
\* after an addDistance on the tracker
C16_Witness ==
    /\ Len(located) = 2
    /\ located[1].lng = located[2].lng
    /\ located[1].lat # located[2].lat
    /\ located[1].cell.cellY # located[2].cell.cellY
    /\ located[1].wasEmpty /\ ~located[2].wasEmpty
    /\ lastOp.op = "reset"

(***************************************************************************)
(* GET /api/routes?folder=saved with all its scoring tasks: the saved      *)
(* routes are loaded, the aggregate is built, and one task per valid route *)
(* scores it.  The tasks are followed in every order.                      *)
(***************************************************************************)
\* what loadFromFolder('recent') returns: no route or one
RecentFolders == {routes \in Batches : Len(routes) <= 1}

\* variant: the route is processed into the tracker of the aggregate
AggregateAfterScoring_SharedTracker(route, config, aggregate) ==
    processRoute(route, aggregate)

\* the aggregate after calculateOverlapScore(route, config, aggregate): the call
\* hands it to calculateActualOverlapScore, which calls getDistance on it
AggregateAfterScoring(route, config, aggregate) == AfterQuery(aggregate)

\* the indexes of validRoutes, and the ones whose task has run
ValidIndexes(routes) ==
    {i \in 1..Len(routes) : routes[i].error = NULL /\ Len(routes[i].points) > 0}

ScoredIndexes == {scores[k].index : k \in 1..Len(scores)}

LoadAndAggregate(heatmapSizeKm, recent, saved) ==
    /\ pc = "idle"
    /\ heatmapConfig' = [heatmapSizeKm |-> heatmapSizeKm,
                         referencePoint |-> DEFAULT_REFERENCE_POINT]
    /\ savedRoutes' = saved
    /\ recentRoutes' = recent
    /\ allRoutesHeatmap' = generateRecentRoutesHeatmap(heatmapConfig', recent)
    /\ builds' = builds + 1
    /\ scores' = <<>>
    /\ pc' = "scoring"
    /\ UNCHANGED <<scoredRoute, overlap, trackerVars, ioVars>>

ScoreTask(i) ==
    /\ pc = "scoring"
    /\ i \in ValidIndexes(savedRoutes) \ ScoredIndexes
    /\ scoredRoute' = savedRoutes[i]
    /\ overlap' = calculateOverlapScore(savedRoutes[i], heatmapConfig, allRoutesHeatmap)
    /\ allRoutesHeatmap' = AggregateAfterScoring(savedRoutes[i], heatmapConfig, allRoutesHeatmap)
    /\ scores' = Append(scores, [index |-> i, overlapScore |-> overlap'.score])
    /\ UNCHANGED <<pc, heatmapConfig, recentRoutes, savedRoutes, builds, trackerVars, ioVars>>

\* Promise.all has settled: the response is sent, the request's objects are dropped
RespondWithScores ==
    /\ pc = "scoring"
    /\ ScoredIndexes = ValidIndexes(savedRoutes)
    /\ pc' = "idle"
    /\ heatmapConfig' = DefaultConfig
    /\ recentRoutes' = <<>>
    /\ allRoutesHeatmap' = NewTracker(DefaultConfig)
    /\ scoredRoute' = LoadedRoute(<<>>)
    /\ overlap' = NoOverlap
    /\ savedRoutes' = <<>>
    /\ scores' = <<>>
    /\ builds' = 0
    /\ UNCHANGED <<trackerVars, ioVars>>

NextBatch ==
    \/ \E size \in HeatmapSizes, recent \in RecentFolders, saved \in Batches :
          LoadAndAggregate(size, recent, saved)
    \/ \E i \in 1..MaxRoutes : ScoreTask(i)
    \/ RespondWithScores

SpecBatch == InitRequest /\ [][NextBatch]_vars

(***************************************************************************)
(* C19.  In a saved-routes request the aggregate is built once, when no    *)
(* route has been scored yet; no scoring task changes it; and every score  *)
(* is the score against the aggregate as it was built, in whatever order   *)
(* the tasks run.                                                          *)
(***************************************************************************)
C19_AggregateBuiltOnce ==
    [][/\ builds' > builds => (builds' = 1 /\ scores' = <<>>)
       /\ (pc = "scoring" /\ pc' = "scoring") =>
             /\ builds' = 1
             /\ allRoutesHeatmap' = allRoutesHeatmap
             /\ allRoutesHeatmap' = generateRecentRoutesHeatmap(heatmapConfig', recentRoutes')
             /\ \A k \in 1..Len(scores') :
                   scores'[k].overlapScore =
                      calculateOverlapScore(savedRoutes'[scores'[k].index], heatmapConfig',
                          generateRecentRoutesHeatmap(heatmapConfig', recentRoutes')).score]_vars

\* two saved routes that share a cell with each other and with the recent
\* route have been scored, the second before the first
C19_Witness ==
    /\ pc = "scoring"
    /\ Len(scores) = 2
    /\ scores[1].index = 2 /\ scores[2].index = 1
    /\ savedRoutes[1] # savedRoutes[2]
    /\ RLess(RInt(0), scores[1].overlapScore)
    /\ RLess(RInt(0), scores[2].overlapScore)
    /\ \E c \in Grid :
          /\ getDistance(Alone(heatmapConfig, savedRoutes[1]), c[1], c[2]) > 0
          /\ getDistance(Alone(heatmapConfig, savedRoutes[2]), c[1], c[2]) > 0

(***************************************************************************)
(* databaseRouteLoader.ts, storage.ts.  The database is what the two table *)
(* queries answer and what the storage holds for each row's GPX path.      *)
(***************************************************************************)
\* parseGPXWithXML of the database loader: the jsdom import and the DOMParser
\* are outside its try block; a parsererror is caught and gives no points
parseGPXWithXML(gpxData, jsdom) ==
    IF ~jsdom THEN [threw |-> TRUE, points |-> <<>>]
    ELSE IF gpxData.xml = "malformed" THEN [threw |-> FALSE, points |-> <<>>]
    ELSE [threw |-> FALSE, points |-> gpxData.trkpts]

\* downloadGpxFile: the text of the file, or null on any error
downloadGpxFile(row) == row.file

\* the points after the calculateRouteDistance call of either branch
ConvertedPoints(points) == IF Len(points) > 0 THEN PopulatedPoints(points) ELSE points

\* variant: a failed download leaves the route without error
ConvertRow_SilentDownload(row, folder, jsdom) ==
    LET route == [id |-> row.id, points |-> <<>>,
                  totalDistance |-> OrZero(row.distance_meters),
                  folder |-> folder, error |-> NULL]
    IN  IF row.gpx_file_url = NULL
        THEN [route EXCEPT !.error = "No GPX file URL available"]
        ELSE LET gpxContent == downloadGpxFile(row)
             IN  IF gpxContent = Undefined
                 THEN route
                 ELSE LET parseResult == parseGPXWithXML(gpxContent[1], jsdom)
                      IN  IF parseResult.threw
                          THEN [route EXCEPT !.error = "Failed to parse GPX: jsdom"]
                          ELSE [route EXCEPT
                                   !.points = ConvertedPoints(parseResult.points),
                                   !.totalDistance =
                                       IF Len(parseResult.points) > 0
                                          /\ OrZero(row.distance_meters) = 0
                                       THEN calculateRouteDistance(parseResult.points)
                                       ELSE @]

\* the body shared by convertDatabaseRouteToRoute and convertDatabaseActivityToRoute
ConvertRow(row, folder, jsdom) ==
    LET route == [id |-> row.id, points |-> <<>>,
                  totalDistance |-> OrZero(row.distance_meters),
                  folder |-> folder, error |-> NULL]
    IN  IF row.gpx_file_url = NULL
        THEN [route EXCEPT !.error = "No GPX file URL available"]
        ELSE LET gpxContent == downloadGpxFile(row)
             IN  IF gpxContent = Undefined
                 THEN [route EXCEPT !.error = "Failed to download GPX file"]
                 ELSE LET parseResult == parseGPXWithXML(gpxContent[1], jsdom)
                      IN  IF parseResult.threw
                          THEN [route EXCEPT !.error = "Failed to parse GPX: jsdom"]
                          ELSE [route EXCEPT
                                   !.points = ConvertedPoints(parseResult.points),
                                   !.totalDistance =
                                       IF Len(parseResult.points) > 0
                                          /\ OrZero(row.distance_meters) = 0
                                       THEN calculateRouteDistance(parseResult.points)
                                       ELSE @]

convertDatabaseRouteToRoute(dbRoute, jsdom) == ConvertRow(dbRoute, "saved", jsdom)

convertDatabaseActivityToRoute(dbActivity, jsdom) == ConvertRow(dbActivity, "recent", jsdom)

\* applyRouteFilters, the distance bounds (in the distance unit of the routes)
applyRouteFilters(route, filters) ==
    IF route.error # NULL THEN TRUE
    ELSE /\ filters.distanceMin # Undefined => ~(route.totalDistance < filters.distanceMin[1])
         /\ filters.distanceMax # Undefined => ~(route.totalDistance > filters.distanceMax[1])

\* routes.filter(route => applyRouteFilters(route, filters)) when filters is given
FilterRoutes(routes, filters) ==
    IF filters = Undefined THEN routes
    ELSE SelectSeq(routes, LAMBDA route : applyRouteFilters(route, filters[1]))

\* loadSavedRoutes / loadRecentActivities: the routes, or the exception of
\* data.map when the query answers neither error nor data
LoadTable(table, folder, filters, jsdom) ==
    IF table.error THEN [threw |-> FALSE, routes |-> <<>>]
    ELSE IF table.data = Undefined THEN [threw |-> TRUE, routes |-> <<>>]
    ELSE LET data == table.data[1]
             routes == [i \in 1..Len(data) |->
                          IF folder = "saved"
                          THEN convertDatabaseRouteToRoute(data[i], jsdom)
                          ELSE convertDatabaseActivityToRoute(data[i], jsdom)]
         IN  [threw |-> FALSE, routes |-> FilterRoutes(routes, filters)]

loadSavedRoutes(db, filters) == LoadTable(db.routes, "saved", filters, db.jsdom)

loadRecentActivities(db, filters) == LoadTable(db.activities, "recent", filters, db.jsdom)

\* variant: the exception of the folder's loading is not caught
loadFromFolder_Uncaught(db, folder, filters) ==
    IF folder = "saved" THEN loadSavedRoutes(db, filters) ELSE loadRecentActivities(db, filters)

loadFromFolder(db, folder, filters) ==
    LET loaded == IF folder = "saved" THEN loadSavedRoutes(db, filters)
                  ELSE loadRecentActivities(db, filters)
    IN  IF loaded.threw THEN [threw |-> FALSE, routes |-> <<>>] ELSE loaded

\* Promise.all of the two folders: rejects when one of them does
loadAll(db, filters) ==
    LET recent == loadFromFolder(db, "recent", filters)
        saved  == loadFromFolder(db, "saved", filters)
    IN  IF recent.threw \/ saved.threw THEN [threw |-> TRUE, routes |-> <<>>]
        ELSE [threw |-> FALSE, routes |-> recent.routes \o saved.routes]

\* what the storage can hold at a row's path
GpxFiles ==
    {[xml |-> "malformed", trkpts |-> <<>>],
     [xml |-> "ok", trkpts |-> <<>>],
     [xml |-> "ok", trkpts |-> <<RoutePoint(2, 2)>>],
     [xml |-> "ok", trkpts |-> <<RoutePoint(0, 2), RoutePoint(2, 2)>>]}

\* a table row before its id: the columns the loader reads and its file
RowKinds ==
    {[gpx_file_url |-> NULL, distance_meters |-> Some(5), file |-> Undefined],
     [gpx_file_url |-> "gpx", distance_meters |-> Some(5), file |-> Undefined]}
    \cup {[gpx_file_url |-> "gpx", distance_meters |-> Undefined, file |-> Some(f)] :
            f \in GpxFiles}
    \cup {[gpx_file_url |-> "gpx", distance_meters |-> Some(7),
           file |-> Some([xml |-> "ok", trkpts |-> <<RoutePoint(0, 2), RoutePoint(2, 2)>>])]}

\* rows numbered by their position, the primary key
WithIds(kinds) ==
    [i \in 1..Len(kinds) |->
        [id |-> i, gpx_file_url |-> kinds[i].gpx_file_url,
         distance_meters |-> kinds[i].distance_meters, file |-> kinds[i].file]]

\* what a table query answers: an error, neither error nor data, or rows
QueryError == [error |-> TRUE, data |-> Undefined]

QueryNothing == [error |-> FALSE, data |-> Undefined]

QueryRows(kinds) == [error |-> FALSE, data |-> Some(WithIds(kinds))]

SavedTables ==
    {QueryError, QueryNothing}
    \cup {QueryRows(kinds) : kinds \in UNION {[1..n -> RowKinds] : n \in 0..MaxRows}}

ActivityTables ==
    {QueryError, QueryNothing, QueryRows(<<>>)}
    \cup {QueryRows(<<k>>) : k \in {r \in RowKinds : r.distance_meters # Some(7)}}

Databases ==
    {[routes |-> r, activities |-> a, jsdom |-> j] :
        r \in SavedTables, a \in ActivityTables, j \in BOOLEAN}

\* the filters argument: absent, or a distance window that keeps short routes out
FilterInputs == {Undefined, Some([distanceMin |-> Some(1), distanceMax |-> Undefined])}

InitLoader ==
    /\ tracker = NewTracker(DefaultConfig)
    /\ added = <<>>
    /\ lastOp = NoOp
    /\ located = <<>>
    /\ RequestIdle
    /\ response = NoResponse
    /\ AnalysisIdle
    /\ SyncIdle
    /\ ListIdle
    /\ \E db \in Databases :
          loader = [call |-> "none", db |-> db, folder |-> NULL,
                    filters |-> Undefined, threw |-> FALSE, routes |-> <<>>]

\* await routeLoader.loadFromFolder(folder, filters)
LoadFromFolder(folder, filters) ==
    /\ loader.call = "none"
    /\ LET result == loadFromFolder(loader.db, folder, filters)
       IN  loader' = [loader EXCEPT !.call = "loadFromFolder", !.folder = folder,
                                    !.filters = filters, !.threw = result.threw,
                                    !.routes = result.routes]
    /\ UNCHANGED <<trackerVars, requestVars, response, analysis, sync, routeList>>

\* await routeLoader.loadAll(filters)
LoadAll(filters) ==
    /\ loader.call = "none"
    /\ LET result == loadAll(loader.db, filters)
       IN  loader' = [loader EXCEPT !.call = "loadAll", !.filters = filters,
                                    !.threw = result.threw, !.routes = result.routes]
    /\ UNCHANGED <<trackerVars, requestVars, response, analysis, sync, routeList>>

NextLoader ==
    \/ \E folder \in {"saved", "recent"}, filters \in FilterInputs :
          LoadFromFolder(folder, filters)
    \/ \E filters \in FilterInputs : LoadAll(filters)

SpecLoader == InitLoader /\ [][NextLoader]_vars

(***************************************************************************)
(* Vocabulary of the loader claims.                                        *)
(***************************************************************************)
\* the query of the table failed, or the loading of the folder threw
Broken(table) == table.error \/ table.data = Undefined

RowsOf(table) == IF Broken(table) THEN <<>> ELSE table.data[1]

TableOf(db, folder) == IF folder = "saved" THEN db.routes ELSE db.activities

\* the folder and the row id of each route, in order
Origins(routes) == [i \in 1..Len(routes) |-> <<routes[i].folder, routes[i].id>>]

RowOrigins(db, folder) ==
    [i \in 1..Len(RowsOf(TableOf(db, folder))) |-> <<folder, RowsOf(TableOf(db, folder))[i].id>>]

\* the row has a URL, its file downloads and parses to at least one point
HealthyRow(row, jsdom) ==
    /\ row.gpx_file_url # NULL
    /\ row.file # Undefined
    /\ jsdom
    /\ row.file[1].xml = "ok"
    /\ Len(row.file[1].trkpts) > 0

(***************************************************************************)
(* C21.  loadFromFolder never throws: when the query of the folder's table *)
(* reports an error, or its loading throws, the result is the empty list.  *)
(* loadAll does not throw either and returns, for a failed folder, the     *)
(* routes of the other folder: without filters, one route per row of the   *)
(* tables that answered, recent before saved.                              *)
(***************************************************************************)
C21_LoadNeverThrows ==
    loader.call # "none" =>
        /\ ~loader.threw
        /\ (loader.call = "loadFromFolder" /\ Broken(TableOf(loader.db, loader.folder)))
              => loader.routes = <<>>
        /\ (loader.call = "loadAll" /\ loader.filters = Undefined)
              => Origins(loader.routes)
                    = RowOrigins(loader.db, "recent") \o RowOrigins(loader.db, "saved")

\* loadAll has returned the recent route although the saved folder threw
C21_Witness ==
    /\ loader.call = "loadAll"
    /\ loader.db.routes = QueryNothing
    /\ ~Broken(loader.db.activities)
    /\ Len(loader.routes) = 1
    /\ loader.routes[1].folder = "recent"

(***************************************************************************)
(* C22.  Without filters, loadFromFolder returns exactly one Route per row *)
(* of the folder's table, in row order.  A row without GPX URL gives the   *)
(* error 'No GPX file URL available', a row whose download fails gives     *)
(* 'Failed to download GPX file', both with no points; a row that has a    *)
(* URL and a file with track points gives its own points and no error,     *)
(* whatever the other rows are.                                            *)
(***************************************************************************)
C22_OneRoutePerRow ==
    (loader.call = "loadFromFolder" /\ loader.filters = Undefined
        /\ ~Broken(TableOf(loader.db, loader.folder))) =>
        LET rows == RowsOf(TableOf(loader.db, loader.folder))
        IN  /\ Origins(loader.routes) = RowOrigins(loader.db, loader.folder)
            /\ \A i \in 1..Len(rows) :
                  /\ rows[i].gpx_file_url = NULL
                        => /\ loader.routes[i].error = "No GPX file URL available"
                           /\ loader.routes[i].points = <<>>
                  /\ (rows[i].gpx_file_url # NULL /\ rows[i].file = Undefined)
                        => /\ loader.routes[i].error = "Failed to download GPX file"
                           /\ loader.routes[i].points = <<>>
                  /\ HealthyRow(rows[i], loader.db.jsdom)
                        => /\ loader.routes[i].error = NULL
                           /\ loader.routes[i].points
                                 = PopulatedPoints(rows[i].file[1].trkpts)

\* the first row's download failed, the second row is returned with its points
C22_Witness ==
    /\ loader.call = "loadFromFolder"
    /\ loader.folder = "saved"
    /\ loader.filters = Undefined
    /\ Len(loader.routes) = 2
    /\ loader.routes[1].error = "Failed to download GPX file"
    /\ loader.routes[2].error = NULL
    /\ Len(loader.routes[2].points) = 2

(***************************************************************************)
(* C29.  As stated: every Route a loader returns with zero points has its  *)
(* error set.  The database loader returns a row whose GPX file downloads  *)
(* but is malformed, or holds no track point, with no points and no error. *)
(***************************************************************************)
C29_Original ==
    loader.call # "none" =>
        \A i \in 1..Len(loader.routes) :
            Len(loader.routes[i].points) = 0 => loader.routes[i].error # NULL

\* a downloaded file without track points came back with no points and no
\* error, where the file loader sets 'No track points found in GPX file'
C29_Witness ==
    /\ loader.call = "loadFromFolder"
    /\ loader.folder = "saved"
    /\ ~Broken(loader.db.routes)
    /\ Len(loader.routes) = 1
    /\ loader.db.routes.data[1][1].file = Some([xml |-> "ok", trkpts |-> <<>>])
    /\ loader.routes[1].points = <<>>
    /\ loader.routes[1].error = NULL
    /\ LoadedRoute(<<>>).error # NULL

(***************************************************************************)
(* processRoute on routes whose points carry the derived fields of         *)
(* calculateRouteDistance on all, some or none of their points.            *)
(***************************************************************************)
\* the points with no derived field
BarePoints(points) == [i \in 1..Len(points) |-> RoutePoint(points[i].lat, points[i].lon)]

\* the points of which those at the indexes in mask carry the derived fields
PartialPoints(points, mask) ==
    [i \in 1..Len(points) |-> IF i \in mask THEN PopulatedPoints(points)[i] ELSE points[i]]

PartialRoutes ==
    {[points |-> PartialPoints(points, mask),
      totalDistance |-> calculateRouteDistance(points), error |-> NULL] :
        <<points, mask>> \in UNION {{<<p, m>> : m \in SUBSET (1..Len(p))} : p \in ParsedPoints}}

NextFields == \E route \in PartialRoutes : ProcessRoute(route)

SpecFields == InitTracker /\ [][NextFields]_vars

(***************************************************************************)
(* C23.  processRoute puts the same distance into every cell whether the   *)
(* points carry distanceFromPrev, midLat and midLon from                   *)
(* calculateRouteDistance on all, on some or on none of them: each cell    *)
(* holds the distance of the segments whose arithmetic midpoint it         *)
(* contains, computed from the coordinates alone, zero-length segments     *)
(* included.                                                               *)
(***************************************************************************)
C23_FieldsDoNotMatter ==
    lastOp.op = "processRoute" =>
        LET route  == lastOp.routes[1]
            config == tracker.heatmapConfig
            bare   == [route EXCEPT !.points = BarePoints(route.points)]
            full   == [route EXCEPT !.points = PopulatedPoints(BarePoints(route.points))]
        IN  /\ \A c \in Grid \cup EntryCells(tracker) :
                  getDistance(tracker, c[1], c[2]) = SegmentsIn(config, route.points, c)
            /\ SameTotals(tracker, processRoute(bare, NewTracker(config)))
            /\ SameTotals(tracker, processRoute(full, NewTracker(config)))

\* three points, the second equal to the first and carrying the fields, the
\* third without them; the route has put distance into a cell
C23_Witness ==
    /\ lastOp.op = "processRoute"
    /\ Len(lastOp.routes[1].points) = 3
    /\ lastOp.routes[1].points[1].lat = lastOp.routes[1].points[2].lat
    /\ lastOp.routes[1].points[1].lon = lastOp.routes[1].points[2].lon
    /\ lastOp.routes[1].points[2].distanceFromPrev = Some(0)
    /\ lastOp.routes[1].points[3].distanceFromPrev = Undefined
    /\ lastOp.routes[1].points[3].midLat = Undefined
    /\ getTotalDistance(tracker) > 0
    /\ Len(getAllCells(tracker)) = 2

(***************************************************************************)
(* C24.  In every overlap-score computation of a saved-routes request the  *)
(* tracker of the route and the tracker of the aggregate have been built   *)
(* from the same HeatmapConfig, the one of the request: the same cell size *)
(* and the same reference point.                                           *)
(***************************************************************************)
C24_SameConfig ==
    (pc = "scoring" /\ scores # <<>>) =>
        /\ overlap.routeHeatmapTracker.heatmapConfig = allRoutesHeatmap.heatmapConfig
        /\ allRoutesHeatmap.heatmapConfig = heatmapConfig

\* a route has been scored in a request whose cell size is not the default,
\* against an aggregate that holds a recent route
C24_Witness ==
    /\ pc = "scoring"
    /\ scores # <<>>
    /\ heatmapConfig.heatmapSizeKm # DEFAULT_HEATMAP_SIZE_KM
    /\ overlap.routeHeatmapTracker.heatmapConfig.heatmapSizeKm = heatmapConfig.heatmapSizeKm
    /\ getTotalDistance(allRoutesHeatmap) > 0
    /\ getTotalDistance(overlap.routeHeatmapTracker) > 0

(***************************************************************************)
(* GET /api/routes?folder=saved as one step, up to the response body: with *)
(* the filesystem loader (app/api/routes/route.ts) and with the database   *)
(* loader (the later handler).  A route is known by its index in the list  *)
(* the loader returned.                                                    *)
(***************************************************************************)
Indexes(routes) == [i \in 1..Len(routes) |-> i]

\* routes.filter(route => !route.error && route.points.length > 0), as indexes
validRoutes(routes) ==
    SelectSeq(Indexes(routes),
              LAMBDA i : routes[i].error = NULL /\ Len(routes[i].points) > 0)

\* variant: the error filter keeps error-flagged routes only
errorRoutes_ErrorOnly(routes) ==
    SelectSeq(Indexes(routes), LAMBDA i : routes[i].error # NULL)

\* routes.filter(route => route.error || route.points.length === 0), as indexes
errorRoutes(routes) ==
    SelectSeq(Indexes(routes),
              LAMBDA i : routes[i].error # NULL \/ Len(routes[i].points) = 0)

\* [...validRoutesWithScores, ...errorRoutes.map(overlapScore: undefined)]
routesWithOverlapScores(routes, config, aggregate) ==
    LET valid  == validRoutes(routes)
        errors == errorRoutes(routes)
    IN  [k \in 1..Len(valid) |->
            [index |-> valid[k], error |-> routes[valid[k]].error,
             points |-> routes[valid[k]].points,
             overlapScore |-> Some(calculateOverlapScore(routes[valid[k]], config,
                                                         aggregate).score)]]
        \o [k \in 1..Len(errors) |->
            [index |-> errors[k], error |-> routes[errors[k]].error,
             points |-> routes[errors[k]].points,
             overlapScore |-> Undefined]]

\* the aggregate of the later handler: processRoutes over all the recent routes
generateRecentRoutesHeatmapDb(config, recent) == processRoutes(recent, NewTracker(config))

\* the handler with FileSystemRouteLoader; saved and recent are what its
\* loadFromFolder calls return
GetSavedRoutes(heatmapSizeKm, recent, saved) ==
    /\ pc = "idle"
    /\ heatmapConfig' = [heatmapSizeKm |-> heatmapSizeKm,
                         referencePoint |-> DEFAULT_REFERENCE_POINT]
    /\ savedRoutes' = saved
    /\ recentRoutes' = recent
    /\ allRoutesHeatmap' = generateRecentRoutesHeatmap(heatmapConfig', recent)
    /\ builds' = builds + 1
    /\ response' = routesWithOverlapScores(saved, heatmapConfig', allRoutesHeatmap')
    /\ pc' = "responded"
    /\ UNCHANGED <<scoredRoute, overlap, scores, trackerVars, loader, analysis, sync, routeList>>

\* the handler with DatabaseRouteLoader on the database db; the request's
\* filters carry the defaults distanceMin 0 and distanceMax 200
GetSavedRoutesDb(heatmapSizeKm, db) ==
    LET filters == Some([distanceMin |-> Some(0), distanceMax |-> Some(200)])
        saved   == loadFromFolder(db, "saved", filters).routes
        recent  == loadFromFolder(db, "recent", Undefined).routes
    IN  /\ pc = "idle"
        /\ heatmapConfig' = [heatmapSizeKm |-> heatmapSizeKm,
                             referencePoint |-> DEFAULT_REFERENCE_POINT]
        /\ savedRoutes' = saved
        /\ recentRoutes' = recent
        /\ allRoutesHeatmap' = generateRecentRoutesHeatmapDb(heatmapConfig', recent)
        /\ builds' = builds + 1
        /\ response' = routesWithOverlapScores(saved, heatmapConfig', allRoutesHeatmap')
        /\ pc' = "responded"
        /\ UNCHANGED <<scoredRoute, overlap, scores, trackerVars, loader, analysis, sync,
                       routeList>>

NextSaved ==
    \/ \E size \in HeatmapSizes, recent \in RecentFolders, saved \in Batches :
          GetSavedRoutes(size, recent, saved)
    \/ \E size \in HeatmapSizes, db \in Databases : GetSavedRoutesDb(size, db)

SpecSaved == InitRequest /\ [][NextSaved]_vars

\* the distance the routes put into the aggregate, error-flagged ones left out
RECURSIVE SoundDistance(_)
SoundDistance(routes) ==
    IF routes = <<>> THEN 0
    ELSE (IF Head(routes).error = NULL
          THEN Sum([i \in 1..Len(SegmentCalls(Head(routes).points)) |->
                       SegmentCalls(Head(routes).points)[i][3]],
                   1..Len(SegmentCalls(Head(routes).points)))
          ELSE 0)
         + SoundDistance(Tail(routes))

(***************************************************************************)
(* C25.  In the response of a saved-folder request every route the loader  *)
(* returned appears exactly once.  An entry carries a numeric overlapScore *)
(* only if its route has no error and at least one point; an entry whose   *)
(* route has an error or no point carries overlapScore undefined.  The     *)
(* aggregate holds the distance of the recent routes without error and     *)
(* nothing from the error-flagged ones.                                    *)
(***************************************************************************)
C25_ResponsePartition ==
    pc = "responded" =>
        /\ Len(response) = Len(savedRoutes)
        /\ \A i \in 1..Len(savedRoutes) :
              \E k \in 1..Len(response) :
                  /\ response[k].index = i
                  /\ response[k].points = savedRoutes[i].points
                  /\ response[k].error = savedRoutes[i].error
                  /\ \A m \in 1..Len(response) : response[m].index = i => m = k
        /\ \A k \in 1..Len(response) :
              /\ response[k].overlapScore # Undefined
                    => (response[k].error = NULL /\ Len(response[k].points) >= 1)
              /\ (response[k].error # NULL \/ Len(response[k].points) = 0)
                    => response[k].overlapScore = Undefined
        /\ getTotalDistance(allRoutesHeatmap) = SoundDistance(recentRoutes)

\* the error route the loader returned first comes after the scored route in
\* the response, without score; the recent folder held an error route only
C25_Witness ==
    /\ pc = "responded"
    /\ Len(response) = 2
    /\ response[1].index = 2
    /\ response[1].overlapScore # Undefined
    /\ response[2].index = 1
    /\ response[2].error # NULL
    /\ response[2].overlapScore = Undefined
    /\ Len(recentRoutes) = 1
    /\ recentRoutes[1].error # NULL
    /\ getTotalDistance(allRoutesHeatmap) = 0

(***************************************************************************)
(* GET /api/heatmap-analysis.  A number of the request is NaN or a         *)
(* rational; strings are sequences of characters.                          *)
(***************************************************************************)
NaN == [nan |-> TRUE, n |-> 0, d |-> 1]

Float(n, d) == [nan |-> FALSE, n |-> Ratio(n, d).n, d |-> Ratio(n, d).d]

\* a < b on numbers: false when either is NaN
FloatLess(a, b) == ~a.nan /\ ~b.nan /\ a.n * b.d < b.n * a.d

IsDigit(c) == \E i \in 1..10 : DigitChar[i] = c

\* the number of digits of s from position i on
RECURSIVE DigitRun(_, _)
DigitRun(s, i) ==
    IF i <= Len(s) /\ IsDigit(s[i]) THEN 1 + DigitRun(s, i + 1) ELSE 0

RECURSIVE Pow10(_)
Pow10(k) == IF k = 0 THEN 1 ELSE 10 * Pow10(k - 1)

\* parseFloat(s): the longest prefix that is a decimal literal (sign, digits,
\* point, digits), NaN when there is none; exponents, Infinity and leading
\* white space are not modelled
parseFloat(s) ==
    LET signed == s # <<>> /\ s[1] \in {"-", "+"}
        start  == IF signed THEN 2 ELSE 1
        k      == DigitRun(s, start)
        hasDot == start + k <= Len(s) /\ s[start + k] = "."
        f      == IF hasDot THEN DigitRun(s, start + k + 1) ELSE 0
        whole  == ParseDec(SubSeq(s, start, start + k - 1), 0)
        frac   == ParseDec(SubSeq(s, start + k + 1, start + k + f), 0)
        mag    == whole * Pow10(f) + frac
    IN  IF k + f = 0 THEN NaN
        ELSE Float(IF signed /\ s[1] = "-" THEN -mag ELSE mag, Pow10(f))

\* the tracker after processRoutes when the cell size is NaN: every cell
\* coordinate is NaN, so every addDistance call adds to the key "NaN,NaN"
NaNTracker(size, calls) ==
    [heatmap |-> IF calls = <<>> THEN <<>>
                 ELSE <<[key |-> <<"N", "a", "N", ",", "N", "a", "N">>,
                         value |-> Sum([i \in 1..Len(calls) |-> calls[i][3]], 1..Len(calls))]>>,
     heatmapConfig |-> createHeatmapConfig(size, DEFAULT_REFERENCE_POINT)]

\* new ArrayHeatmapTracker(createHeatmapConfig(heatmapSizeKm)) after
\* processRoutes(routes, heatmapTracker); the addDistance calls of processRoutes
\* do not depend on the cell size
AnalysisTracker(size, routes) ==
    IF size.nan
    THEN NaNTracker(size, ProcessRoutesRun(routes, NewTracker(DefaultConfig)).calls)
    ELSE processRoutes(routes, NewTracker(createHeatmapConfig(size.n \div size.d,
                                                              DEFAULT_REFERENCE_POINT)))

BadRequest(error) ==
    [status |-> 400, error |-> error, heatmapSizeKm |-> Undefined,
     tracker |-> Undefined, routesProcessed |-> 0]

\* the handler for an authenticated user; routes is what loadFromFolder returns
heatmapAnalysis(heatmapSizeParam, routes) ==
    IF heatmapSizeParam = Undefined \/ heatmapSizeParam[1] = <<>>
    THEN BadRequest("heatmapSize parameter is required")
    ELSE LET heatmapSizeKm == parseFloat(heatmapSizeParam[1])
         IN  IF FloatLess(heatmapSizeKm, Float(1, 2))
             THEN BadRequest("heatmapSize must be at least 0.5 kilometers")
             ELSE IF FloatLess(Float(50, 1), heatmapSizeKm)
             THEN BadRequest("heatmapSize cannot exceed 50 kilometers")
             ELSE [status |-> 200, error |-> NULL, heatmapSizeKm |-> Some(heatmapSizeKm),
                   tracker |-> Some(AnalysisTracker(heatmapSizeKm, routes)),
                   routesProcessed |-> Len(routes)]

\* searchParams.get('heatmapSize'): absent, empty, not a number, numbers below,
\* in and above the range, and a number followed by a unit
HeatmapSizeParams ==
    {Undefined, Some(<<>>), Some(<<"a", "b", "c">>), Some(<<"0", ".", "4">>),
     Some(<<"0">>), Some(<<"-", "1">>), Some(<<"1">>), Some(<<"2">>), Some(<<"5">>),
     Some(<<"1", "0">>), Some(<<"5", "0">>),
     Some(<<"5", "1">>), Some(<<"5", "k", "m">>)}

HeatmapAnalysis(heatmapSizeParam, routes) ==
    /\ analysis.status = 0
    /\ LET result == heatmapAnalysis(heatmapSizeParam, routes)
       IN  analysis' = [heatmapSizeParam |-> heatmapSizeParam, status |-> result.status,
                        error |-> result.error, heatmapSizeKm |-> result.heatmapSizeKm,
                        tracker |-> result.tracker,
                        routesProcessed |-> result.routesProcessed]
    /\ UNCHANGED <<trackerVars, requestVars, response, loader, sync, routeList>>

NextAnalysis ==
    \E heatmapSizeParam \in HeatmapSizeParams, routes \in Batches :
        HeatmapAnalysis(heatmapSizeParam, routes)

SpecAnalysis == InitRequest /\ [][NextAnalysis]_vars

(***************************************************************************)
(* C26.  As stated: for every heatmapSize parameter, absent, non-numeric   *)
(* or numeric, a heatmap-analysis request ends either in a 400 response    *)
(* without a route processed, or with a tracker whose cell size satisfies  *)
(* 0.5 <= heatmapSizeKm <= 50.  A parameter that is not a number passes    *)
(* both range tests as NaN and the routes are processed on a tracker whose *)
(* cell size is NaN.                                                       *)
(***************************************************************************)
C26_Original ==
    analysis.status # 0 =>
        \/ /\ analysis.status = 400
           /\ analysis.routesProcessed = 0
           /\ analysis.tracker = Undefined
        \/ /\ analysis.tracker # Undefined
           /\ ~analysis.heatmapSizeKm[1].nan
           /\ ~FloatLess(analysis.heatmapSizeKm[1], Float(1, 2))
           /\ ~FloatLess(Float(50, 1), analysis.heatmapSizeKm[1])

\* heatmapSize=abc: status 200, two routes processed, their distance in a
\* tracker whose cell size is NaN
C26_Witness ==
    /\ analysis.status = 200
    /\ analysis.heatmapSizeKm = Some(NaN)
    /\ analysis.routesProcessed = 2
    /\ analysis.tracker[1].heatmapConfig.heatmapSizeKm = NaN
    /\ Len(analysis.tracker[1].heatmap) = 1
    /\ analysis.tracker[1].heatmap[1].value > 0

(***************************************************************************)
(* strava.ts decodePolyline.  A polyline is the sequence of its character  *)
(* codes (63 and above); a point is <<lat, lng>> in units of 1e-5 degrees. *)
(***************************************************************************)
RECURSIVE Pow2(_)
Pow2(k) == IF k = 0 THEN 1 ELSE 2 * Pow2(k - 1)

\* one do-while loop: the value read from position index on and the index
\* after it; charCodeAt beyond the end is NaN, which adds no bit and ends
\* the loop
RECURSIVE ReadChunks(_, _, _, _)
ReadChunks(polyline, index, shift, result) ==
    IF index > Len(polyline) THEN [result |-> result, index |-> index + 1]
    ELSE LET byte == polyline[index] - 63
             next == result + (byte % 32) * Pow2(shift)
         IN  IF byte >= 32 THEN ReadChunks(polyline, index + 1, shift + 5, next)
             ELSE [result |-> next, index |-> index + 1]

\* (result & 1) !== 0 ? ~(result >> 1) : result >> 1
ZigZag(result) == IF result % 2 # 0 THEN -(result \div 2) - 1 ELSE result \div 2

RECURSIVE DecodeFrom(_, _, _, _, _)
DecodeFrom(polyline, index, lat, lng, points) ==
    IF index > Len(polyline) THEN points
    ELSE LET a == ReadChunks(polyline, index, 0, 0)
             b == ReadChunks(polyline, a.index, 0, 0)
             newLat == lat + ZigZag(a.result)
             newLng == lng + ZigZag(b.result)
         IN  DecodeFrom(polyline, b.index, newLat, newLng,
                        Append(points, <<newLat, newLng>>))

decodePolyline(polyline) == DecodeFrom(polyline, 1, 0, 0, <<>>)

(***************************************************************************)
(* POST /api/sync-routes for an authenticated user, item by item.  An item *)
(* carries what Strava sent and what the storage and the database will     *)
(* answer for it.                                                          *)
(***************************************************************************)
\* activity?.map?.summary_polyline is truthy
HasPolyline(item) == item.polyline # Undefined /\ item.polyline[1] # <<>>

\* list.filter(item => item?.map?.summary_polyline)
WithPolyline(items) == SelectSeq(items, HasPolyline)

\* variant: an upsert that throws is not recorded as an error
SyncItem_SilentUpsert(s, list, item) ==
    LET points == decodePolyline(item.polyline[1])
    IN  IF Len(points) > 0
        THEN IF item.upload = "ok"
             THEN [s EXCEPT !.log = @ \o <<[op |-> "upload", list |-> list, id |-> item.id],
                                           [op |-> "upsert", list |-> list, id |-> item.id]>>,
                            !.local = IF item.upsert = "ok" THEN @ + 1 ELSE @]
             ELSE [s EXCEPT !.log = Append(@, [op |-> "upload", list |-> list, id |-> item.id]),
                            !.errors = Append(@, [list |-> list, id |-> item.id,
                                                  error |-> "Failed to upload GPX"])]
        ELSE s

\* the body of the for loop of processActivities / processRoutes for one item
SyncItem(s, list, item) ==
    LET points == decodePolyline(item.polyline[1])
    IN  IF Len(points) > 0
        THEN IF item.upload = "ok"
             THEN IF item.upsert = "ok"
                  THEN [s EXCEPT !.log = @ \o <<[op |-> "upload", list |-> list, id |-> item.id],
                                                [op |-> "upsert", list |-> list, id |-> item.id]>>,
                                 !.local = @ + 1]
                  ELSE [s EXCEPT !.log = @ \o <<[op |-> "upload", list |-> list, id |-> item.id],
                                                [op |-> "upsert", list |-> list, id |-> item.id]>>,
                                 !.errors = Append(@, [list |-> list, id |-> item.id,
                                                       error |-> "Error processing"])]
             ELSE [s EXCEPT !.log = Append(@, [op |-> "upload", list |-> list, id |-> item.id]),
                            !.errors = Append(@, [list |-> list, id |-> item.id,
                                                  error |-> "Failed to upload GPX"])]
        ELSE s

\* what Strava can send for an item, with the answers of storage and database
ItemKinds ==
    {[polyline |-> Undefined, upload |-> "ok", upsert |-> "ok"],
     [polyline |-> Some(<<>>), upload |-> "ok", upsert |-> "ok"],
     [polyline |-> Some(<<64, 64>>), upload |-> "ok", upsert |-> "ok"]}
    \cup {[polyline |-> Some(<<96, 63, 64, 65, 63>>), upload |-> u, upsert |-> d] :
            u \in {"ok", "null"}, d \in {"ok", "throws"}}

ItemLists(kinds, max) ==
    {[i \in 1..Len(ks) |-> [id |-> i, polyline |-> ks[i].polyline,
                            upload |-> ks[i].upload, upsert |-> ks[i].upsert]] :
        ks \in UNION {[1..n -> kinds] : n \in 0..max}}

StravaActivities == ItemLists(ItemKinds, MaxItems)

StravaRoutes == ItemLists(ItemKinds, 1)

\* POST up to the first loop: both lists are fetched
Post(activities, routes) ==
    /\ sync.phase = "idle"
    /\ sync' = [phase |-> "activities", activities |-> activities, routes |-> routes,
                pending |-> WithPolyline(activities), local |-> 0, activitySynced |-> 0,
                errors |-> <<>>, log |-> <<>>, syncedCount |-> 0]
    /\ UNCHANGED <<trackerVars, requestVars, response, loader, analysis, routeList>>

\* one iteration of the loop of processActivities
ProcessActivity ==
    /\ sync.phase = "activities"
    /\ sync.pending # <<>>
    /\ sync' = [SyncItem(sync, "activities", Head(sync.pending)) EXCEPT
                   !.pending = Tail(sync.pending)]
    /\ UNCHANGED <<trackerVars, requestVars, response, loader, analysis, routeList>>

\* processActivities returns its count; processRoutes starts with its own
ActivitiesDone ==
    /\ sync.phase = "activities"
    /\ sync.pending = <<>>
    /\ sync' = [sync EXCEPT !.phase = "routes", !.activitySynced = sync.local,
                            !.local = 0, !.pending = WithPolyline(sync.routes)]
    /\ UNCHANGED <<trackerVars, requestVars, response, loader, analysis, routeList>>

\* one iteration of the loop of processRoutes
ProcessRouteItem ==
    /\ sync.phase = "routes"
    /\ sync.pending # <<>>
    /\ sync' = [SyncItem(sync, "routes", Head(sync.pending)) EXCEPT
                   !.pending = Tail(sync.pending)]
    /\ UNCHANGED <<trackerVars, requestVars, response, loader, analysis, routeList>>

\* syncedCount = activityResults.syncedCount + routeResults.syncedCount; the
\* response is sent
RoutesDone ==
    /\ sync.phase = "routes"
    /\ sync.pending = <<>>
    /\ sync' = [sync EXCEPT !.phase = "done",
                            !.syncedCount = sync.activitySynced + sync.local]
    /\ UNCHANGED <<trackerVars, requestVars, response, loader, analysis, routeList>>

NextSync ==
    \/ \E activities \in StravaActivities, routes \in StravaRoutes : Post(activities, routes)
    \/ ProcessActivity
    \/ ActivitiesDone
    \/ ProcessRouteItem
    \/ RoutesDone

SpecSync == InitRequest /\ [][NextSync]_vars

(***************************************************************************)
(* Vocabulary of the sync claim: an item is known by its list and its id.  *)
(***************************************************************************)
SyncItems ==
    {<<"activities", sync.activities[i]>> : i \in {j \in 1..Len(sync.activities) :
                                                      HasPolyline(sync.activities[j])}}
    \cup {<<"routes", sync.routes[i]>> : i \in {j \in 1..Len(sync.routes) :
                                                   HasPolyline(sync.routes[j])}}

Uploaded(x) == x[2].upload = "ok"

Stored(x) == x[2].upload = "ok" /\ x[2].upsert = "ok"

LogCount(op, x) ==
    Cardinality({k \in 1..Len(sync.log) :
                    /\ sync.log[k].op = op
                    /\ sync.log[k].list = x[1]
                    /\ sync.log[k].id = x[2].id})

ErrorCount(x) ==
    Cardinality({k \in 1..Len(sync.errors) :
                    sync.errors[k].list = x[1] /\ sync.errors[k].id = x[2].id})

(***************************************************************************)
(* C27.  In a Strava sync, syncedCount counts exactly the items whose GPX  *)
(* upload and database upsert both succeeded.  An upsert is attempted only *)
(* right after the successful upload of the same item.  An upload that     *)
(* returns null, or an upsert that fails, adds exactly one error for the   *)
(* item and no count, and the items after it are still processed: at the   *)
(* end every item with a polyline has been uploaded once and               *)
(* syncedCount + errors.length is the number of items with a polyline.     *)
(***************************************************************************)
C27_SyncAccounting ==
    sync.phase # "idle" =>
        /\ \A k \in 1..Len(sync.log) :
              sync.log[k].op = "upsert" =>
                  /\ k > 1
                  /\ sync.log[k - 1] = [sync.log[k] EXCEPT !.op = "upload"]
                  /\ \E x \in SyncItems :
                        x[1] = sync.log[k].list /\ x[2].id = sync.log[k].id /\ Uploaded(x)
        /\ sync.phase = "done" =>
              /\ sync.syncedCount = Cardinality({x \in SyncItems : Stored(x)})
              /\ Len(sync.errors) = Cardinality({x \in SyncItems : ~Stored(x)})
              /\ sync.syncedCount + Len(sync.errors) = Cardinality(SyncItems)
              /\ \A x \in SyncItems :
                    /\ LogCount("upload", x) = 1
                    /\ LogCount("upsert", x) = (IF Uploaded(x) THEN 1 ELSE 0)
                    /\ ErrorCount(x) = (IF Stored(x) THEN 0 ELSE 1)

\* the first activity's upload returned null, the second was synced, and the
\* route's upsert failed: one synced, two errors, three items with a polyline
C27_Witness ==
    /\ sync.phase = "done"
    /\ Len(sync.activities) = 2
    /\ sync.activities[1].upload = "null"
    /\ HasPolyline(sync.activities[1])
    /\ sync.syncedCount = 1
    /\ Len(sync.errors) = 2
    /\ sync.errors[1].error = "Failed to upload GPX"
    /\ sync.errors[2].list = "routes"
    /\ sync.errors[2].error = "Error processing"
    /\ Cardinality(SyncItems) = 3

(***************************************************************************)
(* A tracker that receives direct addDistance calls, whole routes and      *)
(* resets, with the history of the distances handed to addDistance.        *)
(***************************************************************************)
\* processRoute(route, tracker) on the tracker as it is
ProcessRouteOn(route) ==
    LET run == ProcessRouteRun(route, [tracker |-> tracker, calls |-> <<>>])
    IN  /\ Len(added) + Len(run.calls) <= MaxAdds
        /\ tracker' = run.tracker
        /\ added' = added \o run.calls
        /\ lastOp' = [op |-> "processRoute", routes |-> <<route>>, calls |-> run.calls,
                      wasEmpty |-> (tracker.heatmap = <<>>)]
        /\ UNCHANGED <<located, requestVars, ioVars>>

NextConserve ==
    \/ \E ll \in LatLngInputs, distance \in DistanceInputs : AddDistance(ll[1], ll[2], distance)
    \/ \E route \in FolderRoutes : ProcessRouteOn(route)
    \/ Reset

SpecConserve == InitTracker /\ [][NextConserve]_vars

\* the shares cell.distance / totalRouteDistance the scorer takes of a route
\* index, added up
RECURSIVE SumShares(_, _)
SumShares(cells, totalRouteDistance) ==
    IF cells = <<>> THEN RInt(0)
    ELSE RAdd(Ratio(Head(cells).distance, totalRouteDistance),
              SumShares(Tail(cells), totalRouteDistance))

\* the distances of a sequence of addDistance calls, added up
SumCalls(calls) == Sum([k \in 1..Len(calls) |-> calls[k][3]], 1..Len(calls))

Sign(x) == IF x < 0 THEN -1 ELSE IF x > 0 THEN 1 ELSE 0

\* (a, b) => (a.overlapScore ?? 1) - (b.overlapScore ?? 1)
CompareScore(a, b) ==
    LET scoreA == Nullish(a.overlapScore, RInt(1))
        scoreB == Nullish(b.overlapScore, RInt(1))
    IN  Sign(scoreA.n * scoreB.d - scoreB.n * scoreA.d)

\* (a, b) => dateB - dateA, a missing lastDone counting as time 0
CompareDate(a, b) ==
    LET dateA == Nullish(a.lastDone, 0)
        dateB == Nullish(b.lastDone, 0)
    IN  Sign(dateB - dateA)

\* the comparator select hands to sort for the folder
Compare(folder, a, b) ==
    IF folder = "saved" THEN CompareScore(a, b) ELSE CompareDate(a, b)

\* Array.prototype.sort is stable: x goes behind every element that does not
\* compare greater than it
RECURSIVE InsertSorted(_, _, _)
InsertSorted(sorted, x, folder) ==
    IF sorted = <<>> THEN <<x>>
    ELSE IF Compare(folder, Head(sorted), x) <= 0
    THEN <<Head(sorted)>> \o InsertSorted(Tail(sorted), x, folder)
    ELSE <<x>> \o sorted

RECURSIVE SortInto(_, _, _)
SortInto(sorted, rest, folder) ==
    IF rest = <<>> THEN sorted
    ELSE SortInto(InsertSorted(sorted, Head(rest), folder), Tail(rest), folder)

\* [...data].sort(compare) with the comparator of the folder
Sort(data, folder) == SortInto(<<>>, data, folder)

select(folder, data) ==
    IF folder = "saved" \/ folder = "recent" THEN Sort(data, folder) ELSE data

\* the routes of a saved-folder response: without score (with and without
\* error) and with scores below, at and above 1
SavedKinds ==
    {[overlapScore |-> Undefined, lastDone |-> Undefined, error |-> "No GPX file URL available"],
     [overlapScore |-> Undefined, lastDone |-> Undefined, error |-> NULL]}
    \cup {[overlapScore |-> Some(score), lastDone |-> Undefined, error |-> NULL] :
            score \in {RInt(0), Ratio(1, 2), RInt(1), RInt(2)}}

\* the routes of a recent-folder response
RecentKinds ==
    {[overlapScore |-> Undefined, lastDone |-> date, error |-> NULL] :
        date \in {Undefined, Some(1), Some(2)}}

Responses(kinds) ==
    {[i \in 1..Len(ks) |-> [id |-> i, overlapScore |-> ks[i].overlapScore,
                            lastDone |-> ks[i].lastDone, error |-> ks[i].error]] :
        ks \in UNION {[1..n -> kinds] : n \in 0..MaxList}}

\* the query has data and select runs on it
Select(folder, data) ==
    /\ routeList.folder = NULL
    /\ routeList' = [folder |-> folder, received |-> data, selected |-> select(folder, data)]
    /\ UNCHANGED <<trackerVars, requestVars, response, loader, analysis, sync>>

NextList ==
    \/ \E data \in Responses(SavedKinds) : Select("saved", data)
    \/ \E data \in Responses(RecentKinds) : Select("recent", data)

SpecList == InitRequest /\ [][NextList]_vars

(***************************************************************************)
(* C30.  As stated: the saved-route list of useRoutes is in non-decreasing *)
(* order of overlap score, is a permutation of the routes received, and    *)
(* holds no route without overlap score before a route that has one.  A    *)
(* route without score is sorted as if its score were 1, so it comes       *)
(* before every route whose score is above 1.                              *)
(***************************************************************************)
C30_Original ==
    routeList.folder = "saved" =>
        LET out == routeList.selected
        IN  /\ Len(out) = Len(routeList.received)
            /\ \A i \in 1..Len(routeList.received) :
                  Cardinality({k \in 1..Len(out) : out[k] = routeList.received[i]}) = 1
            /\ \A k, m \in 1..Len(out) :
                  (k < m /\ out[k].overlapScore # Undefined /\ out[m].overlapScore # Undefined)
                      => RLeq(out[k].overlapScore[1], out[m].overlapScore[1])
            /\ \A k, m \in 1..Len(out) :
                  (out[k].overlapScore = Undefined /\ out[m].overlapScore # Undefined)
                      => m < k

\* an error route without score is listed before a route of score 2
C30_Witness ==
    /\ routeList.folder = "saved"
    /\ Len(routeList.selected) = 2
    /\ routeList.selected[1].overlapScore = Undefined
    /\ routeList.selected[1].error # NULL
    /\ routeList.selected[2].overlapScore = Some(RInt(2))
    /\ routeList.received[1] = routeList.selected[2]

====
